---------------------------- MODULE Spec2Model ----------------------------
(***************************************************************************)
(* hilbertviz: the curve engines (src/src/hilbert.c) and the render        *)
(* pipeline with its path safety gate (src/src/render.c).                  *)
(*                                                                         *)
(* Numbers.  TLC evaluates 32-bit integers.  A uint64_t of the Hilbert     *)
(* engine (byte_count, capacity, d, t) is a little-endian triple of 30-bit *)
(* limbs, so 4^16 = 2^32 and UINT64_MAX are exact.  The Gilbert engine's   *)
(* int64_t and uint64_t values are TLC integers in words scaled to 31 and  *)
(* 31 + 1 bits: INT64_MIN = -2^30, INT64_MAX = 2^30 - 1 and UINT64_MAX =   *)
(* 2^31 - 1 = 2 * INT64_MAX + 1, as in C.                                  *)
(***************************************************************************)
EXTENDS Integers, Sequences, FiniteSets, TLC

VARIABLES
  args,     \* the arguments of the engine call being made (pure-function specs)
  ret,      \* what that call returned
  outs,     \* the caller's x_out / y_out cells
  walk,     \* a walk over d = 0, 1, ... : [d, visited]
  opt,      \* HvRenderOptions of the hv_render_file call
  fs,       \* the working directory: entry name -> nothing, a file, a symlink
  files,    \* inode -> the file's content
  rs,       \* hv_render_file's locals and its position
  gh        \* history of the run (what it checked, opened, truncated, wrote)

engineVars == <<args, ret, outs, walk>>

renderVars == <<opt, fs, files, rs, gh>>

vars == <<args, ret, outs, walk, opt, fs, files, rs, gh>>

\* The render variables while an engine specification runs.
RenderIdle ==
  /\ opt = [input_path |-> <<>>]
  /\ fs = <<>>
  /\ files = <<>>
  /\ rs = [pc |-> "idle"]
  /\ gh = [env |-> 0]

-----------------------------------------------------------------------------
(* Bounds of the model *)

MaxWalkOrder == 4     \* orders walked exhaustively by the Hilbert walk
MaxDim == 6           \* widths and heights walked by the Gilbert walk
MaxRejectDim == 3     \* widths and heights of the rejected-call specification
SmallBytes == 70      \* byte counts 0..SmallBytes given to pick_order
MaxOrderExcess == 2   \* orders up to HV_HILBERT_MAX_ORDER + MaxOrderExcess are tried
MaxDepthDim == 8      \* widths and heights of the depth-limit specification
MaxDepthLimit == 3    \* max_depth values 0..MaxDepthLimit are tried
MaxStepDim == 12      \* widths and heights whose consecutive indices are compared
GuardSmall == 3       \* operands -GuardSmall..GuardSmall of the checked operations
MaxPathPages == 3     \* page counts 0..MaxPathPages, next to the counts of more digits
MaxPaintBytes == 9    \* the longest input painted
MaxPaintDim == 3      \* the widest and tallest rectangle painted
MaxClosePages == 2    \* pages of a run whose calls may fail

(* Program constants *)

HV_HILBERT_MIN_ORDER == 1
HV_HILBERT_MAX_ORDER == 16
HV_GILBERT_DEFAULT_MAX_RECURSION_DEPTH == 256

-----------------------------------------------------------------------------
\* Force({F(v) : v \in {e}}) is F(e) with e evaluated once: a variable bound over
\* a singleton set holds a value, where a LET definition is evaluated at each use.
Force(S) == CHOOSE r \in S : TRUE

-----------------------------------------------------------------------------
(* uint64_t as three 30-bit limbs, least significant first *)

LimbBits == 30
Limb == 2^30

U64(n) == <<n % Limb, n \div Limb, 0>>

U64Lt(a, b) ==
  \/ a[3] < b[3]
  \/ a[3] = b[3] /\ a[2] < b[2]
  \/ a[3] = b[3] /\ a[2] = b[2] /\ a[1] < b[1]

U64Le(a, b) == a = b \/ U64Lt(a, b)

\* 1ULL << k, k < 64
U64Shl1(k) ==
  <<IF k \div LimbBits = 0 THEN 2^(k % LimbBits) ELSE 0,
    IF k \div LimbBits = 1 THEN 2^(k % LimbBits) ELSE 0,
    IF k \div LimbBits = 2 THEN 2^(k % LimbBits) ELSE 0>>

\* t / 4u
U64Div4(t) ==
  <<(t[1] \div 4) + (t[2] % 4) * (Limb \div 4),
    (t[2] \div 4) + (t[3] % 4) * (Limb \div 4),
    t[3] \div 4>>

\* (t >> k) & 1u for k in {0, 1}
U64Bit(t, k) == (t[1] \div (2^k)) % 2

\* a + 1 and a - 1 (a + 1 does not wrap for the values used)
U64Inc(a) ==
  IF a[1] + 1 < Limb THEN <<a[1] + 1, a[2], a[3]>>
  ELSE IF a[2] + 1 < Limb THEN <<0, a[2] + 1, a[3]>>
  ELSE <<0, 0, a[3] + 1>>

U64Dec(a) ==
  IF a[1] > 0 THEN <<a[1] - 1, a[2], a[3]>>
  ELSE IF a[2] > 0 THEN <<Limb - 1, a[2] - 1, a[3]>>
  ELSE <<Limb - 1, Limb - 1, a[3] - 1>>

U64_MAX == <<Limb - 1, Limb - 1, 15>>

\* a + b in uint64_t; ok is FALSE when the exact sum is above UINT64_MAX.
U64Add(a, b) ==
  LET s1 == a[1] + b[1]
      s2 == a[2] + b[2] + (s1 \div Limb)
      s3 == a[3] + b[3] + (s2 \div Limb)
  IN [ok |-> s3 <= 15, v |-> <<s1 % Limb, s2 % Limb, s3 % 16>>]

-----------------------------------------------------------------------------
(* Hilbert engine: src/src/hilbert.c *)

\* The caller's coordinate cells before a call writes them.
Unwritten == [x |-> -1, y |-> -1]

hv_rot_no_temp(n, x, y, rx, ry) ==
  IF ry = 0
    THEN LET y1 == IF rx = 1 THEN (n - 1) - y ELSE y
         IN [x |-> y1, y |-> y1]
    ELSE [x |-> x, y |-> y]

hv_rot(n, x, y, rx, ry) ==
  IF ry = 0
    THEN LET x1 == IF rx = 1 THEN (n - 1) - x ELSE x
             y1 == IF rx = 1 THEN (n - 1) - y ELSE y
         IN [x |-> y1, y |-> x1]
    ELSE [x |-> x, y |-> y]

hv_hilbert_side_for_order(order) ==
  IF order < HV_HILBERT_MIN_ORDER \/ order > HV_HILBERT_MAX_ORDER
    THEN [ok |-> FALSE, side |-> 0]
    ELSE [ok |-> TRUE, side |-> 2^order]

hv_hilbert_capacity_for_order(order) ==
  IF order < HV_HILBERT_MIN_ORDER \/ order > HV_HILBERT_MAX_ORDER
    THEN [ok |-> FALSE, capacity |-> U64(0)]
    ELSE [ok |-> TRUE, capacity |-> U64Shl1(2 * order)]

RECURSIVE hv_hilbert_pick_order_from(_, _)
hv_hilbert_pick_order_from(order, byte_count) ==
  IF order > HV_HILBERT_MAX_ORDER
    THEN [ok |-> FALSE, order |-> 0, side |-> 0, capacity |-> U64(0)]
    ELSE LET c == hv_hilbert_capacity_for_order(order)
             s == hv_hilbert_side_for_order(order)
         IN IF ~c.ok THEN [ok |-> FALSE, order |-> 0, side |-> 0, capacity |-> U64(0)]
            ELSE IF U64Le(byte_count, c.capacity)
              THEN IF ~s.ok
                     THEN [ok |-> FALSE, order |-> 0, side |-> 0, capacity |-> U64(0)]
                     ELSE [ok |-> TRUE, order |-> order, side |-> s.side,
                           capacity |-> c.capacity]
              ELSE hv_hilbert_pick_order_from(order + 1, byte_count)

RECURSIVE hv_hilbert_pick_order_lt_from(_, _)
hv_hilbert_pick_order_lt_from(order, byte_count) ==
  IF order > HV_HILBERT_MAX_ORDER
    THEN [ok |-> FALSE, order |-> 0, side |-> 0, capacity |-> U64(0)]
    ELSE IF U64Lt(byte_count, hv_hilbert_capacity_for_order(order).capacity)
      THEN [ok |-> TRUE, order |-> order,
            side |-> hv_hilbert_side_for_order(order).side,
            capacity |-> hv_hilbert_capacity_for_order(order).capacity]
      ELSE hv_hilbert_pick_order_lt_from(order + 1, byte_count)

hv_hilbert_pick_order_lt(byte_count) ==
  hv_hilbert_pick_order_lt_from(HV_HILBERT_MIN_ORDER, byte_count)

hv_hilbert_pick_order(byte_count) ==
  hv_hilbert_pick_order_from(HV_HILBERT_MIN_ORDER, byte_count)

\* The for loop of hv_hilbert_d2xy: s = 1; s < side; s <<= 1.  v is the loop
\* state <<s, t, x, y>>.
RECURSIVE hv_hilbert_loop(_, _, _, _, _)
hv_hilbert_loop(s, side, t, x, y) ==
  LET Iter(v) ==
        IF ~(v[1] < side) THEN [x |-> v[3], y |-> v[4]]
        ELSE LET rx == U64Bit(v[2], 1)
                 ry == (U64Bit(v[2], 0) + rx) % 2
                 r  == hv_rot(v[1], v[3], v[4], rx, ry)
             IN hv_hilbert_loop(2 * v[1], side, U64Div4(v[2]),
                                r.x + v[1] * rx, r.y + v[1] * ry)
  IN Force({Iter(v) : v \in {<<s, t, x, y>>}})

\* Returns the int result and the value of the caller's cells afterwards.
hv_hilbert_d2xy_gt(order, d, out) ==
  LET s == hv_hilbert_side_for_order(order)
      c == hv_hilbert_capacity_for_order(order)
  IN IF ~s.ok \/ ~c.ok THEN [ret |-> 0, out |-> out]
     ELSE IF U64Lt(c.capacity, d) THEN [ret |-> 0, out |-> out]
     ELSE [ret |-> 1, out |-> hv_hilbert_loop(1, s.side, d, 0, 0)]

hv_hilbert_d2xy(order, d, out) ==
  LET s == hv_hilbert_side_for_order(order)
      c == hv_hilbert_capacity_for_order(order)
  IN IF ~s.ok \/ ~c.ok THEN [ret |-> 0, out |-> out]
     ELSE IF ~U64Lt(d, c.capacity) THEN [ret |-> 0, out |-> out]
     ELSE [ret |-> 1, out |-> hv_hilbert_loop(1, s.side, d, 0, 0)]

-----------------------------------------------------------------------------
(* Arithmetic guard of the Gilbert engine: src/src/hilbert.c, lines 5-155.  *)
(* Each checked operation returns [ok, v]; v is meaningful when ok.         *)

INT64_MAX == 1073741823
INT64_MIN == (-1073741823) - 1
UINT64_MAX == 2147483647

hv_i64_add(a, b) ==
  IF (b > 0 /\ a > INT64_MAX - b) \/ (b < 0 /\ a < INT64_MIN - b)
    THEN [ok |-> FALSE, v |-> 0]
    ELSE [ok |-> TRUE, v |-> a + b]

hv_i64_sub(a, b) ==
  IF (b > 0 /\ a < INT64_MIN + b) \/ (b < 0 /\ a > INT64_MAX + b)
    THEN [ok |-> FALSE, v |-> 0]
    ELSE [ok |-> TRUE, v |-> a - b]

hv_i64_neg(value) ==
  IF value = INT64_MIN THEN [ok |-> FALSE, v |-> 0]
  ELSE [ok |-> TRUE, v |-> -value]

\* ceil(n / m) for m > 0
CeilDiv(n, m) == (n \div m) + (IF n % m = 0 THEN 0 ELSE 1)

\* __builtin_mul_overflow: success exactly when a * b fits the signed word.
hv_i64_mul(a, b) ==
  LET fits ==
        \/ a = 0
        \/ b = 0
        \/ a > 0 /\ b > 0 /\ a <= INT64_MAX \div b
        \/ a > 0 /\ b < 0 /\ b >= CeilDiv(INT64_MIN, a)
        \/ a < 0 /\ b > 0 /\ a >= CeilDiv(INT64_MIN, b)
        \/ a < 0 /\ b < 0 /\ a # INT64_MIN /\ b # INT64_MIN
           /\ (-a) <= INT64_MAX \div (-b)
  IN IF fits THEN [ok |-> TRUE, v |-> a * b] ELSE [ok |-> FALSE, v |-> 0]

hv_u64_to_i64(value) ==
  IF value > INT64_MAX THEN [ok |-> FALSE, v |-> 0]
  ELSE [ok |-> TRUE, v |-> value]

hv_i64_abs_to_u64(value) ==
  IF value >= 0 THEN [ok |-> TRUE, v |-> value]
  ELSE IF value = INT64_MIN THEN [ok |-> FALSE, v |-> 0]
  ELSE [ok |-> TRUE, v |-> -value]

hv_u64_add(a, b) ==
  IF b > UINT64_MAX - a THEN [ok |-> FALSE, v |-> 0]
  ELSE [ok |-> TRUE, v |-> a + b]

hv_u64_mul(a, b) ==
  IF a # 0 /\ b > UINT64_MAX \div a THEN [ok |-> FALSE, v |-> 0]
  ELSE [ok |-> TRUE, v |-> a * b]

hv_floor_div2_i64(value) ==
  IF value >= 0 THEN value \div 2 ELSE -(((-value) + 1) \div 2)

hv_sign_i64_nonneg(value) == IF value > 0 THEN 1 ELSE 0

hv_sign_i64(value) == IF value > 0 THEN 1 ELSE IF value < 0 THEN -1 ELSE 0

hv_gilbert_dims(ax, ay, bx, by) ==
  Force({ IF ~ws.ok \/ ~hs.ok THEN [ok |-> FALSE, w |-> 0, h |-> 0]
          ELSE Force({ IF ~w.ok \/ ~h.ok THEN [ok |-> FALSE, w |-> 0, h |-> 0]
                       ELSE [ok |-> (w.v > 0) /\ (h.v > 0), w |-> w.v, h |-> h.v]
                       : w \in {hv_i64_abs_to_u64(ws.v)},
                         h \in {hv_i64_abs_to_u64(hs.v)} })
          : ws \in {hv_i64_add(ax, ay)}, hs \in {hv_i64_add(bx, by)} })

hv_gilbert_cell_count(ax, ay, bx, by) ==
  Force({ IF ~dm.ok THEN [ok |-> FALSE, v |-> 0] ELSE hv_u64_mul(dm.w, dm.h)
          : dm \in {hv_gilbert_dims(ax, ay, bx, by)} })

-----------------------------------------------------------------------------
(* Gilbert engine: hv_gilbert_d2xy_recursive.  Every recursive call of the C   *)
(* function is a tail call, so one activation either returns ([done |-> TRUE]  *)
(* with ok, x, y) or hands over to the next activation ([done |-> FALSE] with  *)
(* its arguments).  deep is the depth of the activation that returned.         *)

GFail(depth) == [done |-> TRUE, ok |-> FALSE, x |-> 0, y |-> 0, deep |-> depth]

GCall(x, y, ax, ay, bx, by, d, depth, max_depth) ==
  [done |-> FALSE, next |-> <<x, y, ax, ay, bx, by, d, depth, max_depth>>]

\* The two base cases (h == 1, w == 1): walk d steps along (sx, sy) from (x, y).
hv_gilbert_line(x, y, sx, sy, d, depth) ==
  Force({ Force({ IF ~d_i64.ok \/ ~x_delta.ok \/ ~y_delta.ok THEN GFail(depth)
                  ELSE Force({ IF ~xo.ok \/ ~yo.ok THEN GFail(depth)
                               ELSE [done |-> TRUE, ok |-> TRUE, x |-> xo.v,
                                     y |-> yo.v, deep |-> depth]
                               : xo \in {hv_i64_add(x, x_delta.v)},
                                 yo \in {hv_i64_add(y, y_delta.v)} })
                  : x_delta \in {hv_i64_mul(sx, d_i64.v)},
                    y_delta \in {hv_i64_mul(sy, d_i64.v)} })
          : d_i64 \in {hv_u64_to_i64(d)} })

\* The half extent is never moved by one unit.
hv_gilbert_nudge_never(half, full) == FALSE

\* The parity correction: an odd half extent of a full extent above 2 is moved
\* by one unit in its direction.
hv_gilbert_nudge(half, full) == (half % 2) # 0 /\ full > 2

\* if ((2u * w) > (3u * h)): split along a.  f is the activation's arguments
\* <<x, y, ax, ay, bx, by, d, depth, max_depth>>, g its half extents, unit steps
\* and sizes.
hv_gilbert_wide(f, g) ==
  LET x == f[1]  y == f[2]  ax == f[3]  ay == f[4]  bx == f[5]  by == f[6]
      d == f[7]  depth == f[8]  max_depth == f[9]
      nudge == hv_gilbert_nudge(g.w2, g.w)
  IN Force({
       IF ~ax2.ok \/ ~ay2.ok THEN GFail(depth)
       ELSE Force({
         IF ~first_count.ok THEN GFail(depth)
         ELSE IF d < first_count.v
           THEN GCall(x, y, ax2.v, ay2.v, bx, by, d, depth + 1, max_depth)
         ELSE Force({
           IF ~x2.ok \/ ~y2.ok THEN GFail(depth)
           ELSE IF ~ax_rem.ok \/ ~ay_rem.ok THEN GFail(depth)
           ELSE GCall(x2.v, y2.v, ax_rem.v, ay_rem.v, bx, by,
                      d - first_count.v, depth + 1, max_depth)
           : x2 \in {hv_i64_add(x, ax2.v)}, y2 \in {hv_i64_add(y, ay2.v)},
             ax_rem \in {hv_i64_sub(ax, ax2.v)},
             ay_rem \in {hv_i64_sub(ay, ay2.v)} })
         : first_count \in {hv_gilbert_cell_count(ax2.v, ay2.v, bx, by)} })
       : ax2 \in {IF nudge THEN hv_i64_add(g.ax2, g.dax)
                  ELSE [ok |-> TRUE, v |-> g.ax2]},
         ay2 \in {IF nudge THEN hv_i64_add(g.ay2, g.day)
                  ELSE [ok |-> TRUE, v |-> g.ay2]} })

\* The third block of the tall case: reflected basis vectors.
hv_gilbert_third(f, g, bx2, by2, first_two) ==
  LET x == f[1]  y == f[2]  ax == f[3]  ay == f[4]
      d == f[7]  depth == f[8]  max_depth == f[9]
  IN Force({
       IF ~neg_dax.ok \/ ~neg_day.ok \/ ~neg_dbx.ok \/ ~neg_dby.ok
         THEN GFail(depth)
       ELSE Force({
         IF ~x3_part1.ok \/ ~y3_part1.ok \/ ~x3_part2.ok \/ ~y3_part2.ok
           THEN GFail(depth)
         ELSE Force({
           IF ~x3a.ok \/ ~y3a.ok THEN GFail(depth)
           ELSE Force({
             IF ~x3.ok \/ ~y3.ok THEN GFail(depth)
             ELSE IF ~bx2_neg.ok \/ ~by2_neg.ok \/ ~ax_rem.ok \/ ~ay_rem.ok
               THEN GFail(depth)
             ELSE Force({
               IF ~ax_rem_neg.ok \/ ~ay_rem_neg.ok THEN GFail(depth)
               ELSE GCall(x3.v, y3.v, bx2_neg.v, by2_neg.v, ax_rem_neg.v,
                          ay_rem_neg.v, d - first_two, depth + 1, max_depth)
               : ax_rem_neg \in {hv_i64_neg(ax_rem.v)},
                 ay_rem_neg \in {hv_i64_neg(ay_rem.v)} })
             : x3 \in {hv_i64_add(x3a.v, x3_part2.v)},
               y3 \in {hv_i64_add(y3a.v, y3_part2.v)},
               bx2_neg \in {hv_i64_neg(bx2)}, by2_neg \in {hv_i64_neg(by2)},
               ax_rem \in {hv_i64_sub(ax, g.ax2)},
               ay_rem \in {hv_i64_sub(ay, g.ay2)} })
           : x3a \in {hv_i64_add(x, x3_part1.v)},
             y3a \in {hv_i64_add(y, y3_part1.v)} })
         : x3_part1 \in {hv_i64_add(ax, neg_dax.v)},
           y3_part1 \in {hv_i64_add(ay, neg_day.v)},
           x3_part2 \in {hv_i64_add(bx2, neg_dbx.v)},
           y3_part2 \in {hv_i64_add(by2, neg_dby.v)} })
       : neg_dax \in {hv_i64_neg(g.dax)}, neg_day \in {hv_i64_neg(g.day)},
         neg_dbx \in {hv_i64_neg(g.dbx)}, neg_dby \in {hv_i64_neg(g.dby)} })

\* The tall or balanced case: three blocks.
hv_gilbert_tall(f, g) ==
  LET x == f[1]  y == f[2]  ax == f[3]  ay == f[4]  bx == f[5]  by == f[6]
      d == f[7]  depth == f[8]  max_depth == f[9]
      nudge == hv_gilbert_nudge(g.h2, g.h)
  IN Force({
       IF ~bx2.ok \/ ~by2.ok THEN GFail(depth)
       ELSE Force({
         IF ~bx_rem.ok \/ ~by_rem.ok THEN GFail(depth)
         ELSE Force({
           IF ~first_count.ok \/ ~second_count.ok THEN GFail(depth)
           ELSE Force({
             IF ~first_two.ok THEN GFail(depth)
             ELSE IF d < first_count.v
               THEN GCall(x, y, bx2.v, by2.v, g.ax2, g.ay2, d, depth + 1,
                          max_depth)
             ELSE IF d < first_two.v
               THEN Force({
                      IF ~x2.ok \/ ~y2.ok THEN GFail(depth)
                      ELSE GCall(x2.v, y2.v, ax, ay, bx_rem.v, by_rem.v,
                                 d - first_count.v, depth + 1, max_depth)
                      : x2 \in {hv_i64_add(x, bx2.v)},
                        y2 \in {hv_i64_add(y, by2.v)} })
             ELSE hv_gilbert_third(f, g, bx2.v, by2.v, first_two.v)
             : first_two \in {hv_u64_add(first_count.v, second_count.v)} })
           : first_count \in {hv_gilbert_cell_count(bx2.v, by2.v, g.ax2, g.ay2)},
             second_count \in {hv_gilbert_cell_count(ax, ay, bx_rem.v,
                                                     by_rem.v)} })
         : bx_rem \in {hv_i64_sub(bx, bx2.v)},
           by_rem \in {hv_i64_sub(by, by2.v)} })
       : bx2 \in {IF nudge THEN hv_i64_add(g.bx2, g.dbx)
                  ELSE [ok |-> TRUE, v |-> g.bx2]},
         by2 \in {IF nudge THEN hv_i64_add(g.by2, g.dby)
                  ELSE [ok |-> TRUE, v |-> g.by2]} })

\* One activation, from its entry to its return or its tail call.
\* The guard left out: a frame runs at any depth.
hv_gilbert_depth_exceeded_never(depth, max_depth) == FALSE

\* if (depth > max_depth) return 0;
hv_gilbert_depth_exceeded(depth, max_depth) == depth > max_depth

hv_gilbert_frame(f) ==
  LET x == f[1]  y == f[2]  ax == f[3]  ay == f[4]  bx == f[5]  by == f[6]
      d == f[7]  depth == f[8]  max_depth == f[9]
  IN IF hv_gilbert_depth_exceeded(depth, max_depth) THEN GFail(depth)
     ELSE Force({
       IF ~dm.ok THEN GFail(depth)
       ELSE Force({
         IF ~total.ok THEN GFail(depth)
         ELSE IF d >= total.v THEN GFail(depth)
         ELSE IF dm.h = 1
           THEN hv_gilbert_line(x, y, hv_sign_i64(ax), hv_sign_i64(ay), d, depth)
         ELSE IF dm.w = 1
           THEN hv_gilbert_line(x, y, hv_sign_i64(bx), hv_sign_i64(by), d, depth)
         ELSE Force({
           Force({
             IF ~dm2.ok THEN GFail(depth)
             ELSE Force({
               IF 2 * dm.w > 3 * dm.h THEN hv_gilbert_wide(f, g)
               ELSE hv_gilbert_tall(f, g)
               : g \in {[ax2 |-> half.ax2, ay2 |-> half.ay2,
                         bx2 |-> half.bx2, by2 |-> half.by2,
                         dax |-> hv_sign_i64(ax), day |-> hv_sign_i64(ay),
                         dbx |-> hv_sign_i64(bx), dby |-> hv_sign_i64(by),
                         w |-> dm.w, h |-> dm.h, w2 |-> dm2.w, h2 |-> dm2.h]} })
             : dm2 \in {hv_gilbert_dims(half.ax2, half.ay2, half.bx2, half.by2)} })
           : half \in {[ax2 |-> hv_floor_div2_i64(ax),
                        ay2 |-> hv_floor_div2_i64(ay),
                        bx2 |-> hv_floor_div2_i64(bx),
                        by2 |-> hv_floor_div2_i64(by)]} })
         : total \in {hv_u64_mul(dm.w, dm.h)} })
       : dm \in {hv_gilbert_dims(ax, ay, bx, by)} })

RECURSIVE hv_gilbert_d2xy_recursive(_, _, _, _, _, _, _, _, _)

\* The chain of activations; returns [ok, x, y, deep].
hv_gilbert_d2xy_recursive(x, y, ax, ay, bx, by, d, depth, max_depth) ==
  Force({ IF s.done THEN [ok |-> s.ok, x |-> s.x, y |-> s.y, deep |-> s.deep]
          ELSE hv_gilbert_d2xy_recursive(s.next[1], s.next[2], s.next[3],
                                         s.next[4], s.next[5], s.next[6],
                                         s.next[7], s.next[8], s.next[9])
          : s \in {hv_gilbert_frame(<<x, y, ax, ay, bx, by, d, depth,
                                      max_depth>>)} })

\* A square is walked along y first.
hv_gilbert_along_x_strict(width, height) == width > height

\* if (width >= height): the major axis a is x, else y.
hv_gilbert_along_x(width, height) == width >= height

\* Returns the int result, the caller's cells afterwards, and the deepest frame.
hv_gilbert_d2xy_with_limit(width, height, d, max_depth, out) ==
  LET Checked(r) ==
        IF ~r.ok THEN [ret |-> 0, out |-> out, deep |-> r.deep]
        ELSE IF r.x < 0 \/ r.y < 0 \/ r.x >= width \/ r.y >= height
          THEN [ret |-> 0, out |-> out, deep |-> r.deep]
        ELSE [ret |-> 1, out |-> [x |-> r.x, y |-> r.y], deep |-> r.deep]
  IN IF width = 0 \/ height = 0 THEN [ret |-> 0, out |-> out, deep |-> -1]
     ELSE Force({
       IF ~capacity.ok \/ d >= capacity.v
         THEN [ret |-> 0, out |-> out, deep |-> -1]
       ELSE IF hv_gilbert_along_x(width, height)
         THEN Force({ Checked(r) : r \in {hv_gilbert_d2xy_recursive(
                        0, 0, width, 0, 0, height, d, 0, max_depth)} })
         ELSE Force({ Checked(r) : r \in {hv_gilbert_d2xy_recursive(
                        0, 0, 0, height, width, 0, d, 0, max_depth)} })
       : capacity \in {hv_u64_mul(width, height)} })

\* A limit of 3 in place of the default.
hv_gilbert_d2xy_shallow(width, height, d, out) ==
  hv_gilbert_d2xy_with_limit(width, height, d, 3, out)

hv_gilbert_d2xy(width, height, d, out) ==
  hv_gilbert_d2xy_with_limit(width, height, d,
                             HV_GILBERT_DEFAULT_MAX_RECURSION_DEPTH, out)

-----------------------------------------------------------------------------
(* The Hilbert walk: d2xy for d = 0, 1, ..., 4^order - 1 of one order *)

InitHilbertWalk ==
  /\ args \in [fn : {"hilbert_walk"}, order : 1..MaxWalkOrder]
  /\ ret = -1
  /\ outs = Unwritten
  /\ walk = [d |-> 0, visited |-> {}]
  /\ RenderIdle

HilbertWalkStep ==
  /\ args.fn = "hilbert_walk"
  /\ walk.d < 4^args.order
  /\ LET r == hv_hilbert_d2xy(args.order, U64(walk.d), Unwritten)
     IN /\ ret' = r.ret
        /\ outs' = r.out
        /\ walk' = [d |-> walk.d + 1,
                    visited |-> IF r.ret = 1 THEN walk.visited \cup {r.out}
                                ELSE walk.visited]
  /\ UNCHANGED <<args, renderVars>>

NextHilbertWalk == HilbertWalkStep

SpecHilbertWalk == InitHilbertWalk /\ [][NextHilbertWalk]_vars

Grid(w, h) == [x : 0..(w - 1), y : 0..(h - 1)]

\* C7: for every order walked, every d in [0, 4^n) succeeds with x, y < 2^n, no
\* cell is produced twice, and after the last d every cell of the 2^n x 2^n grid
\* has been produced.
C7_HilbertBijection ==
  args.fn = "hilbert_walk" =>
    /\ walk.d > 0 => ret = 1 /\ outs \in Grid(2^args.order, 2^args.order)
    /\ walk.visited \subseteq Grid(2^args.order, 2^args.order)
    /\ Cardinality(walk.visited) = walk.d
    /\ walk.d = 4^args.order => walk.visited = Grid(2^args.order, 2^args.order)

C7_Witness ==
  /\ args.fn = "hilbert_walk"
  /\ args.order = MaxWalkOrder
  /\ walk.d = 4^args.order
  /\ Cardinality(walk.visited) = 4^args.order

-----------------------------------------------------------------------------
(* The Gilbert walk: d2xy for d = 0, 1, ..., width*height - 1 of one rectangle *)

InitGilbertWalk ==
  /\ args \in [fn : {"gilbert_walk"}, width : 1..MaxDim, height : 1..MaxDim]
  /\ ret = -1
  /\ outs = Unwritten
  /\ walk = [d |-> 0, visited |-> {}]
  /\ RenderIdle

GilbertWalkStep ==
  /\ args.fn = "gilbert_walk"
  /\ walk.d < args.width * args.height
  /\ LET r == hv_gilbert_d2xy(args.width, args.height, walk.d, Unwritten)
     IN /\ ret' = r.ret
        /\ outs' = r.out
        /\ walk' = [d |-> walk.d + 1,
                    visited |-> IF r.ret = 1 THEN walk.visited \cup {r.out}
                                ELSE walk.visited]
  /\ UNCHANGED <<args, renderVars>>

NextGilbertWalk == GilbertWalkStep

SpecGilbertWalk == InitGilbertWalk /\ [][NextGilbertWalk]_vars

\* C8: for every width and height walked (width < height and squares included),
\* every d in [0, width*height) succeeds with x < width and y < height, no cell is
\* produced twice, and after the last d every cell of the grid has been produced.
C8_GilbertBijection ==
  args.fn = "gilbert_walk" =>
    /\ walk.d > 0 => ret = 1 /\ outs \in Grid(args.width, args.height)
    /\ walk.visited \subseteq Grid(args.width, args.height)
    /\ Cardinality(walk.visited) = walk.d
    /\ walk.d = args.width * args.height
         => walk.visited = Grid(args.width, args.height)

C8_Witness ==
  /\ args.fn = "gilbert_walk"
  /\ args.width = MaxDim - 1
  /\ args.height = MaxDim
  /\ walk.d = args.width * args.height
  /\ Cardinality(walk.visited) = args.width * args.height

-----------------------------------------------------------------------------
(* Calls at and beyond the boundaries of the two d2xy functions *)

Pow4U64(n) == U64Shl1(2 * n)

\* 0, UINT64_MAX, and 4^k - 1, 4^k, 4^k + 1 for every order k
BoundaryU64 ==
  {U64(0), U64_MAX}
    \cup UNION {{U64Dec(Pow4U64(k)), Pow4U64(k), U64Inc(Pow4U64(k))} :
                  k \in HV_HILBERT_MIN_ORDER..HV_HILBERT_MAX_ORDER}

InitCalls ==
  /\ args = [fn |-> "none"]
  /\ ret = -1
  /\ outs = Unwritten
  /\ walk = [d |-> 0, visited |-> {}]
  /\ RenderIdle

CallHilbertD2xy ==
  /\ args.fn = "none"
  /\ \E order \in 0..(HV_HILBERT_MAX_ORDER + MaxOrderExcess), d \in BoundaryU64 :
       LET r == hv_hilbert_d2xy(order, d, Unwritten)
       IN /\ args' = [fn |-> "hilbert_d2xy", order |-> order, d |-> d]
          /\ ret' = r.ret
          /\ outs' = r.out
          /\ UNCHANGED <<walk, renderVars>>

CallGilbertD2xy ==
  /\ args.fn = "none"
  /\ \E width \in 0..MaxRejectDim, height \in 0..MaxRejectDim :
       \E d \in 0..(width * height + 2) :
         LET r == hv_gilbert_d2xy(width, height, d, Unwritten)
         IN /\ args' = [fn |-> "gilbert_d2xy", width |-> width,
                        height |-> height, d |-> d]
            /\ ret' = r.ret
            /\ outs' = r.out
            /\ UNCHANGED <<walk, renderVars>>

NextReject == CallHilbertD2xy \/ CallGilbertD2xy

SpecReject == InitCalls /\ [][NextReject]_vars

\* C9: hv_hilbert_d2xy fails for every order outside 1..16 and every d >= 4^order,
\* hv_gilbert_d2xy fails when width or height is 0 and for every d >= width*height,
\* and a failing call of either leaves the caller's coordinates unwritten.
C9_RejectedCalls ==
  /\ args.fn = "hilbert_d2xy" =>
       /\ (\/ args.order < 1
           \/ args.order > 16
           \/ U64Le(Pow4U64(args.order), args.d)) => ret = 0
       /\ ret = 0 => outs = Unwritten
  /\ args.fn = "gilbert_d2xy" =>
       /\ (\/ args.width = 0
           \/ args.height = 0
           \/ args.d >= args.width * args.height) => ret = 0
       /\ ret = 0 => outs = Unwritten

C9_Witness ==
  /\ args.fn = "hilbert_d2xy"
  /\ args.order = 16
  /\ args.d = Pow4U64(16)
  /\ ret = 0
  /\ outs = Unwritten

-----------------------------------------------------------------------------
(* hv_hilbert_pick_order over small byte counts and the capacity boundaries *)

ByteCounts == {U64(n) : n \in 0..SmallBytes} \cup BoundaryU64

CallPickOrder ==
  /\ args.fn = "none"
  /\ \E byte_count \in ByteCounts :
       /\ args' = [fn |-> "pick_order", byte_count |-> byte_count]
       /\ ret' = hv_hilbert_pick_order(byte_count)
       /\ UNCHANGED <<outs, walk, renderVars>>

NextPick == CallPickOrder

SpecPick == InitCalls /\ [][NextPick]_vars

\* C10: pick_order succeeds exactly when byteCount <= 4^16 and then returns the
\* smallest order n in 1..16 with 4^n >= byteCount, side = 2^n and capacity = 4^n
\* (byteCount 0 gives order 1).
C10_PickOrder ==
  args.fn = "pick_order" =>
    /\ ret.ok <=> U64Le(args.byte_count, Pow4U64(16))
    /\ ret.ok =>
         /\ ret.order \in 1..16
         /\ U64Le(args.byte_count, Pow4U64(ret.order))
         /\ ret.order > 1 => U64Lt(Pow4U64(ret.order - 1), args.byte_count)
         /\ ret.side = 2^ret.order
         /\ ret.capacity = Pow4U64(ret.order)
    /\ args.byte_count = U64(0) => ret.ok /\ ret.order = 1

C10_Witness ==
  /\ args.fn = "pick_order"
  /\ args.byte_count = U64Inc(Pow4U64(15))
  /\ ret.ok
  /\ ret.order = 16


-----------------------------------------------------------------------------
(* The render pipeline and its path safety gate (src/src/render.c).         *)
(*                                                                           *)
(* A C string is a sequence of one-character strings.  The file system is   *)
(* one directory, the working directory: fs maps an entry name to nothing,  *)
(* to a file (an inode number) or to a symbolic link (a path); files maps   *)
(* an inode to its content, a sequence of records [k, v].  All inodes are   *)
(* on one device.                                                            *)

MaxPages == 2         \* the longest input fills MaxPages pages
MaxEnvSteps == 1      \* steps the external actor takes during one run
MaxSliceBytes == 10   \* the longest input of a run without an external actor
MaxFileBytes == 4     \* the longest file behind a slice stream
MaxStreamCalls == 3   \* calls made on one slice stream
MaxAhead == 1         \* bytes stdio reads ahead of a request

HV_DEFAULT_PAGE_ORDER == 12

HV_LAYOUT_HILBERT == 0

HV_LAYOUT_RECT_HILBERT == 1

\* strchr: the index of the first c in s, 0 when there is none.
strchr(s, c) ==
  LET hits == {i \in 1..Len(s) : s[i] = c}
  IN IF hits = {} THEN 0 ELSE CHOOSE i \in hits : \A j \in hits : i <= j

\* strrchr: the index of the last c in s, 0 when there is none.
strrchr(s, c) ==
  LET hits == {i \in 1..Len(s) : s[i] = c}
  IN IF hits = {} THEN 0 ELSE CHOOSE i \in hits : \A j \in hits : j <= i

RECURSIVE hv_u64_digits(_)
hv_u64_digits(value) ==
  IF value >= 10 THEN 1 + hv_u64_digits(value \div 10) ELSE 1

DecimalDigit == <<"0", "1", "2", "3", "4", "5", "6", "7", "8", "9">>

\* printf("%0*" PRIu64, width, value)
RECURSIVE FormatU64(_)
FormatU64(value) ==
  IF value >= 10 THEN Append(FormatU64(value \div 10), DecimalDigit[(value % 10) + 1])
  ELSE <<DecimalDigit[value + 1]>>

FormatU64Padded(width, value) ==
  LET digits == FormatU64(value)
  IN IF Len(digits) >= width THEN digits
     ELSE [i \in 1..(width - Len(digits)) |-> "0"] \o digits

hv_build_page_output_path(base_path, page_index, page_count) ==
  IF page_count <= 1 THEN base_path
  ELSE LET slash == strrchr(base_path, "/")
           dot0 == strrchr(base_path, ".")
           dot == IF dot0 # 0 /\ slash # 0 /\ dot0 < slash THEN 0 ELSE dot0
           prefix_len == IF dot # 0 THEN dot - 1 ELSE Len(base_path)
           digits == hv_u64_digits(page_count)
           width == IF digits < 4 THEN 4 ELSE IF digits > 32 THEN 32 ELSE digits
           tag == <<"_", "p", "a", "g", "e">>
                    \o FormatU64Padded(width, page_index + 1)
       IN SubSeq(base_path, 1, prefix_len) \o tag
            \o SubSeq(base_path, prefix_len + 1, Len(base_path))

-----------------------------------------------------------------------------
(* The file system the run and the external actor share. *)

\* The paths of the modelled runs.
InputPath == <<"i">>

OutputPath == <<"o", ".", "p">>

LegendPath == <<"l">>

DotSlash == <<".", "/">>

Cwd == <<"/", "w">>

\* Every entry name a run or the external actor can touch.
\* The most pages a modelled run has: inputs of order-1 pages (4 bytes each).
NamedPages ==
  IF 4 * MaxPages > MaxSliceBytes + 3 THEN MaxPages ELSE (MaxSliceBytes + 3) \div 4

Names ==
  {InputPath, OutputPath, LegendPath}
    \cup {hv_build_page_output_path(OutputPath, k, n) : k \in 0..(NamedPages - 1),
                                                          n \in 2..NamedPages}
    \cup {hv_build_page_output_path(InputPath, k, n) : k \in 0..(NamedPages - 1),
                                                         n \in 2..NamedPages}

Inodes == 1..(Cardinality(Names) + 2)

NoEntry == [kind |-> "none", ino |-> 0, to |-> <<>>]

FileEntry(i) == [kind |-> "file", ino |-> i, to |-> <<>>]

SymlinkEntry(target) == [kind |-> "symlink", ino |-> 0, to |-> target]

DirPart(path) ==
  LET slash == strrchr(path, "/")
  IN IF slash = 0 THEN <<".">>
     ELSE IF slash = 1 THEN <<"/">>
     ELSE SubSeq(path, 1, slash - 1)

BasePart(path) == SubSeq(path, strrchr(path, "/") + 1, Len(path))

\* realpath(3) of a directory: only the working directory and the root exist.
realpath(dir) ==
  IF dir = <<".">> \/ dir = Cwd THEN [ok |-> TRUE, path |-> Cwd]
  ELSE IF dir = <<"/">> THEN [ok |-> TRUE, path |-> <<"/">>]
  ELSE [ok |-> FALSE, path |-> <<>>]

\* The kernel's path walk: follows symbolic links; ends at a file, at a missing
\* last component (which O_CREAT would create), or fails (ENOENT, ELOOP).
RECURSIVE PathWalk(_, _, _)
PathWalk(fsys, path, fuel) ==
  LET dir == realpath(DirPart(path))
      name == BasePart(path)
  IN IF path = <<>> \/ ~dir.ok \/ dir.path # Cwd \/ name \notin Names
       THEN [st |-> "error", ino |-> 0, name |-> <<>>]
     ELSE IF fsys[name].kind = "file"
       THEN [st |-> "file", ino |-> fsys[name].ino, name |-> name]
     ELSE IF fsys[name].kind = "none"
       THEN [st |-> "absent", ino |-> 0, name |-> name]
     ELSE IF fuel = 0 THEN [st |-> "error", ino |-> 0, name |-> <<>>]
     ELSE PathWalk(fsys, fsys[name].to, fuel - 1)

\* stat(2): [ok, dev, ino].
stat(fsys, path) ==
  Force({ [ok |-> w.st = "file", dev |-> 0, ino |-> w.ino]
          : w \in {PathWalk(fsys, path, Cardinality(Names))} })

\* The inodes that an entry or an open descriptor of the run refers to.
Referenced(fsys, open_inos) ==
  {fsys[n].ino : n \in {m \in Names : fsys[m].kind = "file"}} \cup open_inos

FreshInode(fsys, open_inos) ==
  Force({ CHOOSE i \in free : \A j \in free : i <= j
          : free \in {Inodes \ Referenced(fsys, open_inos)} })

\* The kernel frees an inode that no entry and no descriptor refers to.
Reclaim(fsys, filesys, open_inos) ==
  Force({ [i \in Inodes |-> IF i \in referenced THEN filesys[i] ELSE <<>>]
          : referenced \in {Referenced(fsys, open_inos)} })

hv_same_inode_mixed(a, b) == (a.dev = b.dev) /\ (a.ino = b.dev)

hv_same_inode(a, b) == (a.dev = b.dev) /\ (a.ino = b.ino)

hv_normalize_path_local(path) ==
  IF path = <<>> \/ BasePart(path) = <<>> \/ ~realpath(DirPart(path)).ok
    THEN [ok |-> FALSE, normalized |-> <<>>]
  ELSE [ok |-> TRUE,
        normalized |-> realpath(DirPart(path)).path \o <<"/">> \o BasePart(path)]

hv_paths_alias(fsys, a, b) ==
  IF a = b THEN TRUE
  ELSE Force({
    IF st_a.ok /\ st_b.ok /\ hv_same_inode(st_a, st_b) THEN TRUE
    ELSE norm_a.ok /\ norm_b.ok /\ norm_a.normalized = norm_b.normalized
    : st_a \in {stat(fsys, a)}, st_b \in {stat(fsys, b)},
      norm_a \in {hv_normalize_path_local(a)},
      norm_b \in {hv_normalize_path_local(b)} })

\* lstat in place of stat: a symbolic link is not followed.
hv_path_aliases_input_lstat(fsys, path, input_st) ==
  LET name == BasePart(path)
  IN /\ name \in Names
     /\ fsys[name].kind = "file"
     /\ hv_same_inode([ok |-> TRUE, dev |-> 0, ino |-> fsys[name].ino], input_st)

hv_path_aliases_input(fsys, path, input_st) ==
  Force({ IF ~path_st.ok THEN FALSE ELSE hv_same_inode(path_st, input_st)
          : path_st \in {stat(fsys, path)} })


-----------------------------------------------------------------------------
(* Errors, options and the checks made before the gate. *)

NULL == <<>>          \* a null char pointer

NoError == [msg |-> "", role |-> "", page |-> 0, path |-> <<>>, other |-> <<>>]

Error(msg) == [NoError EXCEPT !.msg = msg]

\* "refusing destructive path alias: <role> [<page>] path '<path>' aliases
\* <input | legend path> '<other>'"
AliasError(role, page, path, other) ==
  [msg |-> "refusing destructive path alias", role |-> role, page |-> page,
   path |-> path, other |-> other]

HV_DEFAULT_MAX_IMAGE_BYTES == 256 * 1024 * 1024

hv_mul_u64(a, b) ==
  IF a # 0 /\ b > UINT64_MAX \div a THEN [ok |-> FALSE, v |-> 0]
  ELSE [ok |-> TRUE, v |-> a * b]

hv_add_u64(a, b) ==
  IF b > UINT64_MAX - a THEN [ok |-> FALSE, v |-> 0]
  ELSE [ok |-> TRUE, v |-> a + b]

\* A uint64_t below 2^31 held in limbs, as a number.
U64Value(u) == u[1] + Limb * u[2]

\* The end of the slice is not compared with the file size.
hv_validate_slice_from_file_no_end(file_size, offset, has_length, length) ==
  IF offset > file_size
    THEN [ok |-> FALSE, slice_len |-> 0, err |-> Error("offset exceeds file size")]
  ELSE IF has_length THEN [ok |-> TRUE, slice_len |-> length, err |-> NoError]
  ELSE [ok |-> TRUE, slice_len |-> file_size - offset, err |-> NoError]

hv_validate_slice_from_file(file_size, offset, has_length, length) ==
  IF offset > file_size
    THEN [ok |-> FALSE, slice_len |-> 0, err |-> Error("offset exceeds file size")]
  ELSE IF has_length
    THEN IF ~hv_add_u64(offset, length).ok
            \/ hv_add_u64(offset, length).v > file_size
           THEN [ok |-> FALSE, slice_len |-> 0,
                 err |-> Error("slice is outside file size")]
           ELSE [ok |-> TRUE, slice_len |-> length, err |-> NoError]
  ELSE [ok |-> TRUE, slice_len |-> file_size - offset, err |-> NoError]

hv_rect_has_unavoidable_diagonal(width, height) ==
  LET larger == IF height > width THEN height ELSE width
      smaller == IF height > width THEN width ELSE height
  IN (larger % 2 # 0) /\ (smaller % 2 = 0)

GeometryError(msg) ==
  [ok |-> FALSE, order |-> 0, width |-> 0, height |-> 0, capacity |-> 0,
   err |-> Error(msg)]

Geometry(order, width, height, capacity) ==
  [ok |-> TRUE, order |-> order, width |-> width, height |-> height,
   capacity |-> capacity, err |-> NoError]

\* What the auto_order branch of hv_select_geometry selects.
AutoOrderError(msg) ==
  [ok |-> FALSE, msg |-> msg, order |-> 0, side |-> 0, capacity |-> U64(0)]

AutoOrder(order, side, capacity) ==
  [ok |-> TRUE, msg |-> "", order |-> order, side |-> side, capacity |-> capacity]

\* HV_DEFAULT_PAGE_ORDER clamped to the supported orders.
page_order ==
  IF HV_DEFAULT_PAGE_ORDER < HV_HILBERT_MIN_ORDER THEN HV_HILBERT_MIN_ORDER
  ELSE IF HV_DEFAULT_PAGE_ORDER > HV_HILBERT_MAX_ORDER THEN HV_HILBERT_MAX_ORDER
  ELSE HV_DEFAULT_PAGE_ORDER

\* The smallest order that fits is searched for whatever the slice size.
hv_select_auto_order_search(paginate, input_bytes) ==
  Force({ IF ~picked.ok
            THEN AutoOrderError("input slice exceeds max order capacity; use --paginate")
          ELSE AutoOrder(picked.order, picked.side, picked.capacity)
          : picked \in {hv_hilbert_pick_order(input_bytes)} })

\* The auto_order branch of hv_select_geometry; input_bytes is a uint64_t.
hv_select_auto_order(paginate, input_bytes) ==
  Force({
    IF paginate /\ U64Lt(U64(0), input_bytes)
      THEN IF ~page_capacity.ok \/ ~page_side.ok
             THEN AutoOrderError("failed to compute default page order")
           ELSE IF U64Le(input_bytes, page_capacity.capacity)
             THEN IF ~picked.ok THEN AutoOrderError("failed to select auto order")
                  ELSE AutoOrder(picked.order, picked.side, picked.capacity)
           ELSE AutoOrder(page_order, page_side.side, page_capacity.capacity)
    ELSE IF ~picked.ok
      THEN AutoOrderError("input slice exceeds max order capacity; use --paginate")
    ELSE AutoOrder(picked.order, picked.side, picked.capacity)
    : page_capacity \in {hv_hilbert_capacity_for_order(page_order)},
      page_side \in {hv_hilbert_side_for_order(page_order)},
      picked \in {hv_hilbert_pick_order(input_bytes)} })

hv_select_geometry(options, input_bytes) ==
  IF options.layout = HV_LAYOUT_RECT_HILBERT
    THEN IF ~options.dimensions_set
           THEN GeometryError("rect-hilbert layout requires explicit dimensions")
         ELSE IF options.width = 0 \/ options.height = 0
           THEN GeometryError("dimensions must be positive for rect-hilbert layout")
         ELSE IF ~hv_mul_u64(options.width, options.height).ok
                 \/ hv_mul_u64(options.width, options.height).v = 0
           THEN GeometryError("dimension capacity overflow")
         ELSE IF options.strict_adjacency
                 /\ hv_rect_has_unavoidable_diagonal(options.width, options.height)
           THEN GeometryError("strict adjacency rejects dimensions")
         ELSE Geometry(0, options.width, options.height,
                       hv_mul_u64(options.width, options.height).v)
  ELSE IF options.layout = HV_LAYOUT_HILBERT
    THEN IF options.dimensions_set
           THEN GeometryError("dimensions are only supported with --layout rect-hilbert")
         ELSE IF options.auto_order
           THEN Force({ IF ~a.ok THEN GeometryError(a.msg)
                        ELSE Geometry(a.order, a.side, a.side, U64Value(a.capacity))
                        : a \in {hv_select_auto_order(options.paginate,
                                                      U64(input_bytes))} })
         ELSE IF ~hv_hilbert_side_for_order(options.order).ok
                 \/ ~hv_hilbert_capacity_for_order(options.order).ok
           THEN GeometryError("invalid order")
         ELSE Geometry(options.order,
                       hv_hilbert_side_for_order(options.order).side,
                       hv_hilbert_side_for_order(options.order).side,
                       U64Value(hv_hilbert_capacity_for_order(options.order).capacity))
  ELSE GeometryError("unknown layout mode")

\* The partial last page dropped.
hv_page_count_floor(total, capacity) ==
  IF total < capacity THEN 1 ELSE total \div capacity

\* page_count as hv_render_file computes it.
hv_page_count(total, capacity) ==
  IF total = 0 THEN 1
  ELSE (total \div capacity) + (IF total % capacity # 0 THEN 1 ELSE 0)

\* HvByteStats after memset.
ZeroStats ==
  [total_bytes |-> 0, null_bytes |-> 0, low_bytes |-> 0, ascii_bytes |-> 0,
   high_bytes |-> 0]

\* 0x7F counted with the printable bytes.
hv_stats_add_byte_del_ascii(stats, value) ==
  IF value = 0 THEN [stats EXCEPT !.total_bytes = @ + 1, !.null_bytes = @ + 1]
  ELSE IF value <= 31 THEN [stats EXCEPT !.total_bytes = @ + 1, !.low_bytes = @ + 1]
  ELSE IF value <= 127
    THEN [stats EXCEPT !.total_bytes = @ + 1, !.ascii_bytes = @ + 1]
  ELSE [stats EXCEPT !.total_bytes = @ + 1, !.high_bytes = @ + 1]

hv_stats_add_byte(stats, value) ==
  IF value = 0 THEN [stats EXCEPT !.total_bytes = @ + 1, !.null_bytes = @ + 1]
  ELSE IF value <= 31 THEN [stats EXCEPT !.total_bytes = @ + 1, !.low_bytes = @ + 1]
  ELSE IF value <= 126
    THEN [stats EXCEPT !.total_bytes = @ + 1, !.ascii_bytes = @ + 1]
  ELSE [stats EXCEPT !.total_bytes = @ + 1, !.high_bytes = @ + 1]

hv_stats_add(dst, src) ==
  [total_bytes |-> dst.total_bytes + src.total_bytes,
   null_bytes |-> dst.null_bytes + src.null_bytes,
   low_bytes |-> dst.low_bytes + src.low_bytes,
   ascii_bytes |-> dst.ascii_bytes + src.ascii_bytes,
   high_bytes |-> dst.high_bytes + src.high_bytes]

\* The page loop's inner for: hv_stats_add_byte on read_buf[0 .. chunk-1].
RECURSIVE StatsOfChunk(_, _, _)
StatsOfChunk(stats, read_buf, i) ==
  IF i > Len(read_buf) THEN stats
  ELSE StatsOfChunk(hv_stats_add_byte(stats, read_buf[i]), read_buf, i + 1)

\* The environment variable is unset (getenv returns a null pointer).
Unset == [set |-> FALSE, text |-> <<>>]

\* The environment variable holds text.
SetTo(text) == [set |-> TRUE, text |-> text]

\* 10 * acc + digit in unsigned long long; ok is FALSE on ERANGE.
StrtoullStep(acc, digit) ==
  Force({ Force({ Force({ Force({ Force({
      [ok |-> a2.ok /\ a4.ok /\ a8.ok /\ a10.ok /\ r.ok, v |-> r.v]
      : r \in {U64Add(a10.v, U64(digit))} })
      : a10 \in {U64Add(a8.v, a2.v)} })
      : a8 \in {U64Add(a4.v, a4.v)} })
      : a4 \in {U64Add(a2.v, a2.v)} })
      : a2 \in {U64Add(acc, acc)} })

\* strtoull(text, &end, 10) over a string of decimal digits: errno is ERANGE
\* when the number is above ULLONG_MAX.
RECURSIVE strtoull(_, _)
strtoull(text, acc) ==
  IF text = <<>> THEN [ok |-> TRUE, v |-> acc]
  ELSE Force({ IF ~next.ok THEN [ok |-> FALSE, v |-> U64_MAX]
               ELSE strtoull(Tail(text), next.v)
               : next \in {StrtoullStep(
                   acc, CHOOSE v \in 0..9 : DecimalDigit[v + 1] = Head(text))} })

hv_parse_u64_decimal_strict(text) ==
  IF text = <<>> THEN [ok |-> FALSE, v |-> U64(0)]
  ELSE IF text[1] = "+" \/ text[1] = "-" THEN [ok |-> FALSE, v |-> U64(0)]
  ELSE IF \E i \in 1..Len(text) : \A v \in 1..10 : DecimalDigit[v] # text[i]
    THEN [ok |-> FALSE, v |-> U64(0)]
  ELSE strtoull(text, U64(0))

\* An invalid value falls back to the default cap.
hv_resolve_max_image_bytes_fallback(env) ==
  IF ~env.set \/ env.text = <<>> \/ ~hv_parse_u64_decimal_strict(env.text).ok
    THEN [ok |-> TRUE, v |-> U64(HV_DEFAULT_MAX_IMAGE_BYTES), err |-> NoError]
  ELSE [ok |-> TRUE, v |-> hv_parse_u64_decimal_strict(env.text).v, err |-> NoError]

\* env is what getenv("HILBERTVIZ_MAX_IMAGE_BYTES") returns; the cap is a
\* uint64_t in limbs.
hv_resolve_max_image_bytes(env) ==
  IF ~env.set \/ env.text = <<>>
    THEN [ok |-> TRUE, v |-> U64(HV_DEFAULT_MAX_IMAGE_BYTES), err |-> NoError]
  ELSE Force({
    IF ~parsed.ok
      THEN [ok |-> FALSE, v |-> U64(0),
            err |-> Error("invalid HILBERTVIZ_MAX_IMAGE_BYTES")]
    ELSE [ok |-> TRUE, v |-> parsed.v, err |-> NoError]
    : parsed \in {hv_parse_u64_decimal_strict(env.text)} })


-----------------------------------------------------------------------------
(* hv_open_checked_output_stream.  The result carries the file system after *)
(* the call: [ok, err, fd, truncated, fs, files]; fd is the inode behind the *)
(* stream, truncated the inode the call truncated (0: none).                *)

OpenFailed(err, fsys, filesys) ==
  [ok |-> FALSE, err |-> err, fd |-> 0, truncated |-> 0, fs |-> fsys,
   files |-> filesys]

\* open(path, O_WRONLY | O_CREAT | O_CLOEXEC, 0666): [ok, fd, fs, files].
open_creat(fsys, filesys, open_inos, path) ==
  Force({
    IF w.st = "file" THEN [ok |-> TRUE, fd |-> w.ino, fs |-> fsys, files |-> filesys]
    ELSE IF w.st = "absent"
      THEN [ok |-> TRUE, fd |-> new,
            fs |-> [fsys EXCEPT ![w.name] = FileEntry(new)],
            files |-> [filesys EXCEPT ![new] = <<>>]]
    ELSE [ok |-> FALSE, fd |-> 0, fs |-> fsys, files |-> filesys]
    : w \in {PathWalk(fsys, path, Cardinality(Names))},
      new \in {FreshInode(fsys, open_inos)} })

\* O_TRUNC in the open flags: the file is emptied before its identity is known.
hv_open_checked_output_stream_otrunc(fsys, filesys, open_inos, path, role, input_path, input_st) ==
  Force({
    IF ~o.ok THEN OpenFailed(Error("failed to open"), fsys, filesys)
    ELSE IF hv_same_inode([ok |-> TRUE, dev |-> 0, ino |-> o.fd], input_st)
      THEN [ok |-> FALSE, err |-> AliasError(role, 0, path, input_path), fd |-> 0,
            truncated |-> o.fd, fs |-> o.fs,
            files |-> [o.files EXCEPT ![o.fd] = <<>>]]
    ELSE [ok |-> TRUE, err |-> NoError, fd |-> o.fd, truncated |-> o.fd,
          fs |-> o.fs, files |-> [o.files EXCEPT ![o.fd] = <<>>]]
    : o \in {open_creat(fsys, filesys, open_inos, path)} })

hv_open_checked_output_stream(fsys, filesys, open_inos, path, role, input_path, input_st) ==
  Force({
    IF ~o.ok THEN OpenFailed(Error("failed to open"), fsys, filesys)
    ELSE IF hv_same_inode([ok |-> TRUE, dev |-> 0, ino |-> o.fd], input_st)
      THEN OpenFailed(AliasError(role, 0, path, input_path), o.fs, o.files)
    ELSE [ok |-> TRUE, err |-> NoError, fd |-> o.fd, truncated |-> o.fd,
          fs |-> o.fs, files |-> [o.files EXCEPT ![o.fd] = <<>>]]
    : o \in {open_creat(fsys, filesys, open_inos, path)} })

-----------------------------------------------------------------------------
(* One call of hv_render_file with an external actor on the destinations. *)

LegendEnabled(options) == options.legend_enabled /\ options.legend_path # NULL

\* The Destination Set: the legend path and every page path of the run.
DestinationSet(options, page_count) ==
  (IF LegendEnabled(options) THEN {options.legend_path} ELSE {})
    \cup {hv_build_page_output_path(options.output_path, k, page_count) :
            k \in 0..(page_count - 1)}

OptionsOf(output_path, legend_path, legend_enabled, paginate) ==
  [input_path |-> InputPath, output_path |-> output_path,
   legend_path |-> legend_path, offset |-> 0, has_length |-> FALSE, length |-> 0,
   auto_order |-> FALSE, order |-> 1, paginate |-> paginate,
   legend_enabled |-> legend_enabled, layout |-> HV_LAYOUT_HILBERT,
   dimensions_set |-> FALSE, width |-> 0, height |-> 0,
   strict_adjacency |-> FALSE, max_image_bytes_env |-> Unset]

\* Legend paths tried: a name of its own, the output path spelled through "./",
\* and the generated name of page 1.
LegendPaths ==
  {LegendPath, DotSlash \o OutputPath, hv_build_page_output_path(OutputPath, 0, 2)}

RenderOptionSets ==
  {OptionsOf(o, l, TRUE, p) : o \in {OutputPath, InputPath}, l \in LegendPaths,
                              p \in BOOLEAN}
    \cup {OptionsOf(o, LegendPath, FALSE, p) : o \in {OutputPath, InputPath},
                                               p \in BOOLEAN}

\* Input sizes: empty, and one byte short of 1..MaxPages pages of order 1.
InputLengths == {0} \cup {4 * n - 1 : n \in 1..MaxPages}

InputBytes(n) == [i \in 1..n |-> [k |-> "byte", v |-> (37 * i) % 256]]

\* What a destination name is when the run starts.
StartEntry(kind, options) ==
  IF kind = "symlink_input" THEN SymlinkEntry(options.input_path)
  ELSE IF kind = "hardlink_input" THEN FileEntry(1)
  ELSE IF kind = "symlink_legend" THEN SymlinkEntry(options.legend_path)
  ELSE NoEntry

StartKinds(name, options) ==
  {"absent", "symlink_input", "hardlink_input"}
    \cup (IF LegendEnabled(options) /\ BasePart(options.legend_path) # name
            THEN {"symlink_legend"} ELSE {})

PlannedDestinations(options, len) ==
  LET g == hv_select_geometry(options, len)
      planned == IF g.ok THEN hv_page_count(len, g.capacity) ELSE 1
  IN {BasePart(path) : path \in DestinationSet(options, planned)}

RenderLocals ==
  [pc |-> "start", ret |-> -1, err |-> NoError, input_ino |-> 0,
   input_open |-> FALSE, total |-> 0, remaining |-> 0, order |-> 0, width |-> 0,
   height |-> 0, capacity |-> 0, page_count |-> 0, page_index |-> 0,
   legend_ino |-> 0, page_ino |-> 0, page_path |-> <<>>,
   pixel_bytes |-> 0,
   page_bytes |-> <<>>, page_stats |-> ZeroStats, total_stats |-> ZeroStats,
   result |-> [order |-> 0, side |-> 0, capacity |-> 0, input_bytes |-> 0,
               page_count |-> 0]]

InitRender ==
  /\ args = [fn |-> "render"]
  /\ ret = -1
  /\ outs = Unwritten
  /\ walk = [d |-> 0, visited |-> {}]
  /\ opt \in RenderOptionSets
  /\ \E len \in InputLengths :
       /\ files = [i \in Inodes |-> IF i = 1 THEN InputBytes(len) ELSE <<>>]
       /\ \E kinds \in [PlannedDestinations(opt, len) \ {InputPath} ->
                          {"absent", "symlink_input", "hardlink_input",
                           "symlink_legend"}] :
            /\ \A n \in DOMAIN kinds : kinds[n] \in StartKinds(n, opt)
            /\ fs = [n \in Names |->
                       IF n = InputPath THEN FileEntry(1)
                       ELSE IF n \in DOMAIN kinds THEN StartEntry(kinds[n], opt)
                       ELSE NoEntry]
            /\ gh = [env |-> 0, dests |-> PlannedDestinations(opt, len),
                     start_fs |-> fs, input_bytes |-> <<>>, truncated |-> {},
                     written |-> {}, imaged |-> {}, legend_inos |-> {},
                     checked |-> {}, gate |-> FALSE, opened |-> {},
                     hits |-> {}, page_truncated |-> {}, pages |-> <<>>,
                     env_after_gate |-> FALSE]
  /\ rs = RenderLocals

OpenInodes(r) ==
  (IF r.input_open THEN {r.input_ino} ELSE {})
    \cup (IF r.legend_ino # 0 THEN {r.legend_ino} ELSE {})
    \cup (IF r.page_ino # 0 THEN {r.page_ino} ELSE {})

\* Every return 0 of hv_render_file: the streams are closed, err is set.
Failed(r, err) ==
  [r EXCEPT !.pc = "done", !.ret = 0, !.err = err, !.input_open = FALSE,
            !.legend_ino = 0, !.page_ino = 0]

InputStat(r) == [ok |-> TRUE, dev |-> 0, ino |-> r.input_ino]


\* hv_render_file up to the gate: open the slice stream, fstat it, select the
\* geometry, refuse an input that needs pages without --paginate, compute
\* page_count, and enter hv_preflight_alias_checks.
RenderOpenInput ==
  /\ rs.pc = "start"
  /\ \E w \in {PathWalk(fs, opt.input_path, Cardinality(Names))} :
     \E v \in {IF w.st = "file"
                 THEN hv_validate_slice_from_file(Len(files[w.ino]), opt.offset,
                                                  opt.has_length, opt.length)
                 ELSE [ok |-> FALSE, slice_len |-> 0, err |-> NoError]} :
     \E g \in {hv_select_geometry(opt, v.slice_len)} :
     LET opened == [rs EXCEPT !.input_ino = w.ino, !.total = v.slice_len,
                              !.remaining = v.slice_len]
     IN /\ rs' = IF w.st # "file" THEN Failed(rs, Error("failed to open input"))
                 ELSE IF ~v.ok THEN Failed(opened, v.err)
                 ELSE IF ~g.ok THEN Failed(opened, g.err)
                 ELSE IF v.slice_len > g.capacity /\ ~opt.paginate
                   THEN Failed(opened, Error("input slice exceeds selected capacity; use --paginate"))
                 ELSE [opened EXCEPT
                         !.input_open = TRUE, !.order = g.order, !.width = g.width,
                         !.height = g.height, !.capacity = g.capacity,
                         !.page_count = hv_page_count(v.slice_len, g.capacity),
                         !.page_index = 0,
                         !.pc = IF LegendEnabled(opt) THEN "preflight_legend"
                                ELSE "preflight_page_input"]
        /\ gh' = [gh EXCEPT !.input_bytes =
                              IF w.st = "file" THEN files[w.ino] ELSE <<>>]
  /\ UNCHANGED <<engineVars, opt, fs, files>>

\* hv_preflight_alias_checks: the legend path against the input.
PreflightLegend ==
  /\ rs.pc = "preflight_legend"
  /\ IF hv_path_aliases_input(fs, opt.legend_path, InputStat(rs))
       THEN /\ rs' = Failed(rs, AliasError("legend", 0, opt.legend_path,
                                           opt.input_path))
            /\ gh' = gh
       ELSE /\ rs' = [rs EXCEPT !.pc = "preflight_page_input", !.page_index = 0]
            /\ gh' = [gh EXCEPT !.checked = @ \cup {opt.legend_path}]
  /\ UNCHANGED <<engineVars, opt, fs, files>>

\* hv_preflight_alias_checks: page page_index against the input.
PreflightPageInput ==
  /\ rs.pc = "preflight_page_input"
  /\ \E page_output_path \in {hv_build_page_output_path(
                                 opt.output_path, rs.page_index, rs.page_count)} :
        rs' = IF hv_path_aliases_input(fs, page_output_path, InputStat(rs))
                THEN Failed(rs, AliasError("output page", rs.page_index + 1,
                                           page_output_path, opt.input_path))
                ELSE [rs EXCEPT !.pc = "preflight_page_legend",
                                !.page_path = page_output_path]
  /\ UNCHANGED <<engineVars, opt, fs, files, gh>>

\* The for loop of hv_preflight_alias_checks stops after the first page.
hv_preflight_more_first_only(page_index, page_count) == FALSE

\* ++page_index; page_index < page_count
hv_preflight_more(page_index, page_count) == page_index + 1 < page_count

\* hv_preflight_alias_checks: page page_index against the legend path, then the
\* next page or the end of the gate.
PreflightPageLegend ==
  /\ rs.pc = "preflight_page_legend"
  /\ IF LegendEnabled(opt) /\ hv_paths_alias(fs, rs.page_path, opt.legend_path)
       THEN /\ rs' = Failed(rs, AliasError("output page", 0, rs.page_path,
                                           opt.legend_path))
            /\ gh' = gh
       ELSE /\ rs' = IF hv_preflight_more(rs.page_index, rs.page_count)
                       THEN [rs EXCEPT !.pc = "preflight_page_input",
                                       !.page_index = @ + 1, !.page_path = <<>>]
                       ELSE [rs EXCEPT !.pc = "buffer", !.page_index = 0,
                                       !.page_path = <<>>]
            /\ gh' = [gh EXCEPT
                        !.checked = @ \cup {rs.page_path},
                        !.gate = ~hv_preflight_more(rs.page_index, rs.page_count)]
  /\ UNCHANGED <<engineVars, opt, fs, files>>

\* The cap compared with >= : a buffer of exactly the cap's size is refused.
hv_exceeds_cap_ge(pixel_bytes, max_image_bytes) ==
  U64Lt(U64(0), max_image_bytes) /\ U64Le(max_image_bytes, U64(pixel_bytes))

\* (max_image_bytes > 0u) && (pixel_bytes_u64 > max_image_bytes)
hv_exceeds_cap(pixel_bytes, max_image_bytes) ==
  U64Lt(U64(0), max_image_bytes) /\ U64Lt(max_image_bytes, U64(pixel_bytes))

\* The pixel buffer: its size, the configured cap, calloc.
RenderBuffer ==
  /\ rs.pc = "buffer"
  /\ \E pixel_bytes \in {hv_mul_u64(rs.capacity, 3)} :
     \E cap \in {hv_resolve_max_image_bytes(opt.max_image_bytes_env)} :
        rs' = IF ~pixel_bytes.ok THEN Failed(rs, Error("image size overflow"))
              ELSE IF ~cap.ok THEN Failed(rs, cap.err)
              ELSE IF hv_exceeds_cap(pixel_bytes.v, cap.v)
                THEN Failed(rs, Error("image buffer exceeds configured cap"))
              ELSE [rs EXCEPT !.pixel_bytes = pixel_bytes.v,
                              !.pc = IF opt.legend_enabled THEN "open_legend"
                                     ELSE "read_page"]
  /\ UNCHANGED <<engineVars, opt, fs, files, gh>>

\* The legend stream: hv_open_checked_output_stream, then the header.
RenderOpenLegend ==
  /\ rs.pc = "open_legend"
  /\ IF opt.legend_path = NULL
       THEN /\ rs' = Failed(rs, Error("legend was enabled but no legend path was provided"))
            /\ UNCHANGED <<fs, files, gh>>
       ELSE \E o \in {hv_open_checked_output_stream(
                        fs, files, OpenInodes(rs), opt.legend_path, "legend",
                        opt.input_path, InputStat(rs))} :
            LET header == [k |-> "legend_header", v |-> rs.page_count]
            IN /\ fs' = o.fs
               /\ files' = IF o.ok THEN [o.files EXCEPT ![o.fd] = Append(@, header)]
                           ELSE o.files
               /\ rs' = IF o.ok THEN [rs EXCEPT !.pc = "read_page", !.legend_ino = o.fd]
                        ELSE Failed(rs, o.err)
               /\ gh' = [gh EXCEPT
                           !.opened = @ \cup {opt.legend_path},
                           !.hits = @ \cup
                             (IF stat(fs, opt.legend_path).ino = rs.input_ino
                                THEN {[path |-> opt.legend_path, page |-> 0]}
                                ELSE {}),
                           !.truncated = @ \cup ({o.truncated} \ {0}),
                           !.written = @ \cup ({o.fd} \ {0}),
                           !.legend_inos = @ \cup ({o.fd} \ {0})]
  /\ UNCHANGED <<engineVars, opt>>

\* One page's bytes: memset, then exact reads of min(remaining, capacity) bytes.
RenderReadPage ==
  /\ rs.pc = "read_page"
  /\ \E page_input_bytes \in
          {IF rs.remaining > rs.capacity THEN rs.capacity ELSE rs.remaining} :
     \E first \in {opt.offset + (rs.total - rs.remaining)} :
     \E short \in {Len(files[rs.input_ino]) < first + page_input_bytes} :
     \E read_buf \in {IF short THEN <<>>
                       ELSE [i \in 1..page_input_bytes |->
                               files[rs.input_ino][first + i].v]} :
     \E page_stats \in {StatsOfChunk(ZeroStats, read_buf, 1)} :
        rs' = IF short THEN Failed(rs, Error("unexpected EOF"))
              ELSE [rs EXCEPT !.pc = "open_page",
                              !.remaining = @ - page_input_bytes,
                              !.page_bytes = read_buf,
                              !.page_stats = page_stats,
                              !.total_stats = hv_stats_add(@, page_stats)]
  /\ UNCHANGED <<engineVars, opt, fs, files, gh>>

\* The page's path, built as the gate built it, and its checked stream.
RenderOpenPage ==
  /\ rs.pc = "open_page"
  /\ \E page_output_path \in {hv_build_page_output_path(
                                 opt.output_path, rs.page_index, rs.page_count)} :
     \E o \in {hv_open_checked_output_stream(
                 fs, files, OpenInodes(rs), page_output_path, "output page",
                 opt.input_path, InputStat(rs))} :
        /\ fs' = o.fs
        /\ files' = o.files
        /\ rs' = IF o.ok THEN [rs EXCEPT !.pc = "write_page", !.page_ino = o.fd,
                                         !.page_path = page_output_path]
                 ELSE Failed(rs, o.err)
        /\ gh' = [gh EXCEPT
                    !.opened = @ \cup {page_output_path},
                    !.hits = @ \cup
                      (IF stat(fs, page_output_path).ino = rs.input_ino
                         THEN {[path |-> page_output_path,
                                page |-> rs.page_index + 1]}
                         ELSE {}),
                    !.truncated = @ \cup ({o.truncated} \ {0}),
                    !.page_truncated = @ \cup ({o.truncated} \ {0})]
  /\ UNCHANGED <<engineVars, opt>>

\* hv_write_image_stream, fclose of the page, the page's legend row.
RenderWritePage ==
  /\ rs.pc = "write_page"
  /\ LET image == [k |-> "image", v |-> rs.page_index + 1,
                   bytes |-> rs.page_bytes]
         row == [k |-> "legend_page", v |-> rs.page_index + 1,
                 stats |-> rs.page_stats]
         imaged == [files EXCEPT ![rs.page_ino] = Append(@, image)]
         rowed == IF rs.legend_ino # 0
                    THEN [imaged EXCEPT ![rs.legend_ino] = Append(@, row)]
                    ELSE imaged
         closed == [rs EXCEPT !.page_ino = 0, !.page_path = <<>>,
                              !.page_index = @ + 1,
                              !.pc = IF rs.page_index + 1 < rs.page_count
                                       THEN "read_page" ELSE "finish"]
     IN /\ files' = Reclaim(fs, rowed, OpenInodes(closed))
        /\ rs' = closed
        /\ gh' = [gh EXCEPT
                    !.written = @ \cup {rs.page_ino}
                                  \cup ({rs.legend_ino} \ {0}),
                    !.imaged = @ \cup {rs.page_ino},
                    !.pages = Append(@, rs.page_index + 1)]
  /\ UNCHANGED <<engineVars, opt, fs>>

\* The legend totals, the closes, the result.
RenderFinish ==
  /\ rs.pc = "finish"
  /\ files' = IF rs.legend_ino # 0
                THEN [files EXCEPT ![rs.legend_ino] =
                        Append(@, [k |-> "legend_total",
                                   v |-> rs.total_stats.total_bytes,
                                   stats |-> rs.total_stats])]
                ELSE files
  /\ rs' = [rs EXCEPT
             !.pc = "done", !.ret = 1, !.legend_ino = 0, !.input_open = FALSE,
             !.result = [order |-> rs.order,
                         side |-> IF opt.layout = HV_LAYOUT_HILBERT
                                    THEN rs.width ELSE 0,
                         capacity |-> rs.capacity,
                         input_bytes |-> rs.total_stats.total_bytes,
                         page_count |-> rs.page_count]]
  /\ UNCHANGED <<engineVars, opt, fs, gh>>

-----------------------------------------------------------------------------
(* The external actor: it creates, unlinks, symlinks and hard-links the     *)
(* destination names while the run is under way (a symlink or a link        *)
(* replaces what the name was, as rename(2) over it does).                   *)

EnvMay == rs.pc # "done" /\ gh.env < MaxEnvSteps

EnvTargets ==
  {opt.input_path} \cup (IF LegendEnabled(opt) THEN {opt.legend_path} ELSE {})

EnvDid(fsys) ==
  /\ fsys # fs
  /\ fs' = fsys
  /\ files' = Reclaim(fsys, files, OpenInodes(rs))
  /\ gh' = [gh EXCEPT !.env = @ + 1, !.env_after_gate = @ \/ gh.gate]
  /\ UNCHANGED <<engineVars, opt, rs>>

EnvCreate ==
  /\ EnvMay
  /\ \E n \in gh.dests :
       /\ fs[n].kind = "none"
       /\ EnvDid([fs EXCEPT ![n] = FileEntry(FreshInode(fs, OpenInodes(rs)))])

EnvUnlink ==
  /\ EnvMay
  /\ \E n \in gh.dests : EnvDid([fs EXCEPT ![n] = NoEntry])

EnvSymlink ==
  /\ EnvMay
  /\ \E n \in gh.dests, target \in EnvTargets :
       /\ BasePart(target) # n
       /\ EnvDid([fs EXCEPT ![n] = SymlinkEntry(target)])

EnvLink ==
  /\ EnvMay
  /\ \E n \in gh.dests, target \in EnvTargets :
       /\ fs[BasePart(target)].kind = "file"
       /\ EnvDid([fs EXCEPT ![n] = FileEntry(fs[BasePart(target)].ino)])

Next ==
  \/ RenderOpenInput
  \/ PreflightLegend
  \/ PreflightPageInput
  \/ PreflightPageLegend
  \/ RenderBuffer
  \/ RenderOpenLegend
  \/ RenderReadPage
  \/ RenderOpenPage
  \/ RenderWritePage
  \/ RenderFinish
  \/ EnvCreate
  \/ EnvUnlink
  \/ EnvSymlink
  \/ EnvLink

Spec == InitRender /\ [][Next]_vars

-----------------------------------------------------------------------------
(* Properties of the path safety gate *)

Done == rs.pc = "done"

AliasRefused ==
  Done /\ rs.ret = 0 /\ rs.err.msg = "refusing destructive path alias"

\* The input's inode holds the bytes it held when the run opened it.
InputBytesUnchanged ==
  rs.input_ino # 0 => files[rs.input_ino] = gh.input_bytes

\* The path resolved to the input's inode when the run started.
StartsAsInput(path) ==
  rs.input_ino # 0 /\ stat(gh.start_fs, path).ino = rs.input_ino

PagePath(k) == hv_build_page_output_path(opt.output_path, k, rs.page_count)

\* C1: under every interleaving of the external actor's steps with the run's,
\* the inode read as input is never truncated and never written: its bytes stay
\* what they were, and every ftruncate and every write of the run lands on an
\* inode other than the input's.
C1_InputNeverTouched ==
  rs.input_ino # 0 =>
    /\ files[rs.input_ino] = gh.input_bytes
    /\ rs.input_ino \notin gh.truncated \cup gh.written

\* The external actor acted, an output open came out on the input's inode, and
\* the run had already written other destinations.
C1_Witness ==
  /\ Done
  /\ gh.env > 0
  /\ gh.hits # {}
  /\ gh.written # {}
  /\ Len(gh.input_bytes) > 0

\* C2 as stated: with the paths left alone, every destination that denotes the
\* input when the run starts makes the run fail with a path-alias error that
\* names that destination, the input's bytes unchanged.
C2_EveryAliasNamed ==
  (Done /\ gh.env = 0 /\ rs.page_count >= 1) =>
    \A d \in DestinationSet(opt, rs.page_count) :
      StartsAsInput(d) =>
        AliasRefused /\ rs.err.path = d /\ InputBytesUnchanged

\* The pages the gate refuses: they resolve to the input, or hv_paths_alias
\* finds them to alias the legend path.
GateRefusesPage(k) ==
  \/ StartsAsInput(PagePath(k))
  \/ LegendEnabled(opt) /\ hv_paths_alias(gh.start_fs, PagePath(k), opt.legend_path)

\* The error of the first refusal in the gate's order: the legend, then the
\* pages in ascending order, each against the input and then the legend.
FirstRefusal ==
  IF LegendEnabled(opt) /\ StartsAsInput(opt.legend_path)
    THEN AliasError("legend", 0, opt.legend_path, opt.input_path)
  ELSE LET k == CHOOSE j \in 0..(rs.page_count - 1) :
                  /\ GateRefusesPage(j)
                  /\ \A i \in 0..(j - 1) : ~GateRefusesPage(i)
       IN IF StartsAsInput(PagePath(k))
            THEN AliasError("output page", k + 1, PagePath(k), opt.input_path)
            ELSE AliasError("output page", 0, PagePath(k), opt.legend_path)

\* C2 (amended): with the paths left alone and the run having reached the gate,
\* a destination that denotes the input when the run starts makes the run fail
\* with the path-alias error of the first destination the gate refuses, in the
\* gate's order (the legend, then the pages ascending), the input's bytes
\* unchanged and nothing opened for output.
C2_FirstAliasNamed ==
  (Done /\ gh.env = 0 /\ rs.page_count >= 1
     /\ \E d \in DestinationSet(opt, rs.page_count) : StartsAsInput(d)) =>
    /\ AliasRefused
    /\ rs.err = FirstRefusal
    /\ InputBytesUnchanged
    /\ gh.opened = {}

\* Page 2 is the first destination that denotes the input, and the run failed
\* naming it.
C2_Witness ==
  /\ AliasRefused
  /\ gh.env = 0
  /\ rs.page_count >= 2
  /\ StartsAsInput(PagePath(1))
  /\ ~StartsAsInput(PagePath(0))
  /\ rs.err.page = 2
  /\ rs.err.path = PagePath(1)

\* C3: when the gate has passed and a page's path is then swapped to the input,
\* the run fails with the path-alias error of that page as soon as it opens the
\* page, and the input's bytes are unchanged.
C3_SwappedPageRefused ==
  \A h \in gh.hits :
    (gh.gate /\ h.page >= 1) =>
      /\ AliasRefused
      /\ rs.err = AliasError("output page", 0, h.path, opt.input_path)
      /\ InputBytesUnchanged
      /\ rs.input_ino \notin gh.truncated \cup gh.written

\* The gate passed, page 1 was written, the external actor then pointed page 2
\* at the input, and the run reached page 2.
C3_Witness ==
  /\ Done
  /\ gh.gate
  /\ gh.env_after_gate
  /\ gh.imaged # {}
  /\ \E h \in gh.hits : h.page = 2

\* C4: page_count is computed and the gate has passed every path of the
\* Destination Set before the run opens its first output descriptor or writes
\* its first byte.
C4_GateBeforeOutput ==
  (gh.opened # {} \/ gh.truncated # {} \/ gh.written # {}) =>
    /\ rs.page_count >= 1
    /\ gh.gate
    /\ gh.checked = DestinationSet(opt, rs.page_count)
    /\ gh.opened \subseteq gh.checked

\* A run of two pages and a legend that opened all three destinations.
C4_Witness ==
  /\ Done
  /\ rs.ret = 1
  /\ rs.page_count >= 2
  /\ LegendEnabled(opt)
  /\ Cardinality(gh.opened) >= 3

\* C5 as stated: whenever a destination is found to alias the input, at the
\* gate or at the descriptor-level check, the run has truncated and written no
\* destination.
C5_NothingTouchedOnAlias ==
  (AliasRefused /\ rs.err.other = opt.input_path) =>
    gh.truncated = {} /\ gh.written = {}

\* C5 (amended): a destination found to alias the input at the gate aborts the
\* run before any destination is truncated or written, and with the paths left
\* alone that is where it is found; one found only by the descriptor-level
\* check aborts the run before that destination is truncated or written; no
\* image byte is written before the whole Destination Set has passed the gate.
C5_AbortBeforeWrites ==
  /\ (AliasRefused /\ rs.err.other = opt.input_path /\ (~gh.gate \/ gh.env = 0)) =>
       ~gh.gate /\ gh.opened = {} /\ gh.truncated = {} /\ gh.written = {}
  /\ (AliasRefused /\ rs.err.other = opt.input_path /\ gh.gate) =>
       /\ \E h \in gh.hits : h.path = rs.err.path
       /\ rs.input_ino \notin gh.truncated \cup gh.written
       /\ InputBytesUnchanged
  /\ gh.imaged # {} =>
       gh.gate /\ gh.checked = DestinationSet(opt, rs.page_count)

\* A page that was a symbolic link to the input when the run started: the gate
\* refused it with nothing opened.
C5_Witness ==
  /\ AliasRefused
  /\ gh.env = 0
  /\ rs.err.page >= 1
  /\ fs[BasePart(rs.err.path)].kind = "symlink"
  /\ gh.opened = {}

\* C6: with the paths left alone, no page image is written into the legend's
\* file and no page open truncates it.
C6_LegendNeverImaged ==
  gh.env = 0 =>
    gh.legend_inos \cap (gh.imaged \cup gh.page_truncated) = {}

-----------------------------------------------------------------------------
(* hv_gilbert_d2xy_with_limit under small recursion limits *)

CallGilbertWithLimit ==
  /\ args.fn = "none"
  /\ \E width \in 1..MaxDepthDim, height \in 1..MaxDepthDim,
        max_depth \in 0..MaxDepthLimit :
       \E d \in 0..(width * height - 1) :
         \E r \in {hv_gilbert_d2xy_with_limit(width, height, d, max_depth,
                                              Unwritten)} :
            /\ args' = [fn |-> "gilbert_with_limit", width |-> width,
                        height |-> height, d |-> d, max_depth |-> max_depth]
            /\ ret' = [ret |-> r.ret, deep |-> r.deep]
            /\ outs' = r.out
            /\ UNCHANGED <<walk, renderVars>>

NextDepth == CallGilbertWithLimit

SpecDepth == InitCalls /\ [][NextDepth]_vars

\* The same call under the default limit: its result and the depth it reaches.
Unlimited ==
  hv_gilbert_d2xy(args.width, args.height, args.d, Unwritten)

\* C11: no frame of hv_gilbert_d2xy_with_limit runs past its guard at a depth
\* above max_depth; a mapping that needs a frame at depth max_depth + 1 returns
\* 0 with no coordinate written, and a mapping that succeeds gives the
\* coordinates the unlimited mapping gives; with max_depth = 0 only rectangles
\* of width 1 or height 1 are mapped.
C11_DepthLimit ==
  args.fn = "gilbert_with_limit" =>
    /\ ret.deep <= args.max_depth + 1
    /\ (ret.ret = 1) <=> (Unlimited.deep <= args.max_depth)
    /\ ret.ret = 1 => ret.deep <= args.max_depth /\ outs = Unlimited.out
    /\ ret.ret = 0 =>
         /\ ret.deep = args.max_depth + 1
         /\ outs = Unwritten
    /\ (args.max_depth = 0 /\ ret.ret = 1) =>
         (args.width = 1 \/ args.height = 1)

\* A mapping that needs depth 3 under max_depth = 2: refused, nothing written.
C11_Witness ==
  /\ args.fn = "gilbert_with_limit"
  /\ args.max_depth = 2
  /\ Unlimited.deep = 3
  /\ ret.ret = 0
  /\ outs = Unwritten

-----------------------------------------------------------------------------
(* One call of hv_render_file with nobody else touching the files: slices,  *)
(* byte values and cap settings.                                            *)

\* Byte values of the inputs: 00, 01, 02, ... and the class boundaries.
PatternBytes(p, n) ==
  [i \in 1..n |->
     [k |-> "byte",
      v |-> IF p = 0 THEN (i - 1) % 256
            ELSE <<0, 1, 31, 32, 126, 127, 128, 255>>[((i - 1) % 8) + 1]]]

\* Values of HILBERTVIZ_MAX_IMAGE_BYTES.
CapEnvs ==
  {Unset, SetTo(<<>>), SetTo(<<"0">>), SetTo(<<"1", "1">>), SetTo(<<"1", "2">>),
   SetTo(<<"4", "7">>), SetTo(<<"4", "8">>), SetTo(<<"+", "4", "8">>),
   SetTo(<<"-", "1">>), SetTo(<<"4", "8", "k">>), SetTo(<<" ", "4", "8">>),
   SetTo(<<"1", "8", "4", "4", "6", "7", "4", "4", "0", "7", "3", "7", "0", "9",
           "5", "5", "1", "6", "1", "5">>),
   SetTo(<<"1", "8", "4", "4", "6", "7", "4", "4", "0", "7", "3", "7", "0", "9",
           "5", "5", "1", "6", "1", "6">>)}

SliceOptionSets ==
  {[OptionsOf(OutputPath, LegendPath, legend, paginate) EXCEPT
      !.order = order, !.offset = slice[1], !.has_length = slice[2],
      !.length = slice[3]]
     : legend \in BOOLEAN, paginate \in BOOLEAN, order \in 1..2,
       slice \in {<<0, FALSE, 0>>, <<1, FALSE, 0>>, <<0, TRUE, 0>>,
                  <<1, TRUE, 5>>, <<MaxSliceBytes, FALSE, 0>>}}

CapOptionSets ==
  {[OptionsOf(OutputPath, LegendPath, TRUE, TRUE) EXCEPT
      !.order = order, !.max_image_bytes_env = env]
     : order \in {1, 2, 14}, env \in CapEnvs}

InitPages ==
  /\ args = [fn |-> "render"]
  /\ ret = -1
  /\ outs = Unwritten
  /\ walk = [d |-> 0, visited |-> {}]
  /\ opt \in SliceOptionSets \cup CapOptionSets
  /\ \E len \in 0..MaxSliceBytes, p \in 0..1 :
       files = [i \in Inodes |-> IF i = 1 THEN PatternBytes(p, len) ELSE <<>>]
  /\ fs = [n \in Names |-> IF n = InputPath THEN FileEntry(1) ELSE NoEntry]
  /\ gh = [env |-> 0, dests |-> {}, start_fs |-> fs, input_bytes |-> <<>>,
           truncated |-> {}, written |-> {}, imaged |-> {}, legend_inos |-> {},
           checked |-> {}, gate |-> FALSE, opened |-> {}, hits |-> {},
           page_truncated |-> {}, pages |-> <<>>, env_after_gate |-> FALSE]
  /\ rs = RenderLocals

NextPages ==
  \/ RenderOpenInput
  \/ PreflightLegend
  \/ PreflightPageInput
  \/ PreflightPageLegend
  \/ RenderBuffer
  \/ RenderOpenLegend
  \/ RenderReadPage
  \/ RenderOpenPage
  \/ RenderWritePage
  \/ RenderFinish

SpecPages == InitPages /\ [][NextPages]_vars

\* The slice the options declare, as byte values.
SliceBytes ==
  LET all == gh.input_bytes
      n == IF opt.has_length THEN opt.length ELSE Len(all) - opt.offset
  IN [i \in 1..n |-> all[opt.offset + i].v]

\* What the file behind a path holds.
FileAt(path) == files[stat(fs, path).ino]

\* C12: a successful render of a slice of total bytes with page capacity C
\* makes ceil(total / C) pages (1 page when total = 0) in ascending order; page
\* k holds the next min(remaining, C) bytes of the slice; the stream's remaining
\* count is 0 after the last page; the result reports total and the page count.
C12_Pagination ==
  /\ rs.pc = "finish" => rs.remaining = 0
  /\ (Done /\ rs.ret = 1) =>
       \E total \in {Len(SliceBytes)}, C \in {rs.capacity} :
         /\ rs.page_count = IF total = 0 THEN 1 ELSE (total + C - 1) \div C
         /\ gh.pages = [k \in 1..rs.page_count |-> k]
         /\ \A k \in 1..rs.page_count :
              \E first \in {(k - 1) * C}, last \in {IF k * C < total THEN k * C
                                                    ELSE total} :
                FileAt(PagePath(k - 1)) =
                  <<[k |-> "image", v |-> k,
                     bytes |-> [i \in 1..(last - first) |->
                                  SliceBytes[first + i]]]>>
         /\ rs.result.input_bytes = total
         /\ rs.result.page_count = rs.page_count

\* Ten bytes at capacity 4: three pages of 4, 4 and 2 bytes.
C12_Witness ==
  /\ Done
  /\ rs.ret = 1
  /\ rs.capacity = 4
  /\ rs.result.input_bytes = 10
  /\ rs.result.page_count = 3
  /\ Len(FileAt(PagePath(2))[1].bytes) = 2

\* total = null + low + ascii + high
Balanced(stats) ==
  stats.total_bytes =
    stats.null_bytes + stats.low_bytes + stats.ascii_bytes + stats.high_bytes

\* The counters of a sequence of byte values, class by class.
ClassCounts(bytes) ==
  [total_bytes |-> Len(bytes),
   null_bytes |-> Cardinality({i \in 1..Len(bytes) : bytes[i] = 0}),
   low_bytes |-> Cardinality({i \in 1..Len(bytes) : bytes[i] \in 1..31}),
   ascii_bytes |-> Cardinality({i \in 1..Len(bytes) : bytes[i] \in 32..126}),
   high_bytes |-> Cardinality({i \in 1..Len(bytes) : bytes[i] \in 127..255})]

RECURSIVE SumOfRows(_, _)
SumOfRows(rows, i) ==
  IF i > Len(rows) THEN ZeroStats
  ELSE LET rest == SumOfRows(rows, i + 1)
       IN [f \in DOMAIN ZeroStats |-> rows[i].stats[f] + rest[f]]

\* C13: every byte is counted in exactly one class, so total = null + low +
\* ascii + high for the page counters (after every byte of the page) and for
\* the totals at all times; each legend page line holds the class counts of
\* that page's bytes and the totals line is the field-wise sum of the page
\* lines.
C13_ByteClasses ==
  /\ rs.pc # "idle" =>
       /\ Balanced(rs.page_stats)
       /\ Balanced(rs.total_stats)
       /\ \A j \in 0..Len(rs.page_bytes) :
            \E prefix \in {StatsOfChunk(ZeroStats, SubSeq(rs.page_bytes, 1, j), 1)} :
              Balanced(prefix) /\ prefix = ClassCounts(SubSeq(rs.page_bytes, 1, j))
  /\ (Done /\ rs.ret = 1 /\ LegendEnabled(opt)) =>
       \E legend \in {FileAt(opt.legend_path)} :
       \E rows \in {SubSeq(legend, 2, Len(legend) - 1)} :
       \E totals \in {legend[Len(legend)]} :
         /\ Len(rows) = rs.page_count
         /\ \A k \in 1..Len(rows) :
              /\ rows[k].k = "legend_page"
              /\ rows[k].v = k
              /\ rows[k].stats = ClassCounts(FileAt(PagePath(k - 1))[1].bytes)
         /\ totals.k = "legend_total"
         /\ totals.stats = SumOfRows(rows, 1)
         /\ totals.stats = ClassCounts(SliceBytes)

\* Bytes 00..09 over three pages: total 10, null 1, low 9, ascii 0, high 0.
C13_Witness ==
  /\ Done
  /\ rs.ret = 1
  /\ LegendEnabled(opt)
  /\ rs.page_count = 3
  /\ FileAt(opt.legend_path)[5].stats =
       [total_bytes |-> 10, null_bytes |-> 1, low_bytes |-> 9, ascii_bytes |-> 0,
        high_bytes |-> 0]

\* The cap in force and whether the selected geometry's buffer is above it.
CapInForce == hv_resolve_max_image_bytes(opt.max_image_bytes_env)

AboveCap ==
  /\ CapInForce.ok
  /\ CapInForce.v # U64(0)
  /\ U64Lt(CapInForce.v, U64(3 * rs.capacity))

CapRefused ==
  Done /\ rs.ret = 0 /\ rs.err.msg = "image buffer exceeds configured cap"

\* C14: when the cap c is above 0 and the selected geometry needs 3 * capacity
\* > c bytes, the run fails with the 'exceeds configured cap' error with no
\* buffer allocated, no destination opened and the input as it was; with c = 0
\* or 3 * capacity <= c the cap refuses nothing; a successful render with c > 0
\* has 3 * capacity <= c.
C14_CapBeforeAllocation ==
  /\ (gh.gate /\ rs.pc # "buffer" /\ AboveCap) =>
       /\ CapRefused
       /\ rs.pixel_bytes = 0
       /\ gh.opened = {} /\ gh.truncated = {} /\ gh.written = {}
       /\ InputBytesUnchanged
  /\ CapRefused => AboveCap
  /\ (Done /\ rs.ret = 1) =>
       /\ ~AboveCap
       /\ rs.pixel_bytes = 3 * rs.capacity

\* A cap of 47 bytes refused the 48-byte buffer of order 2.
C14_Witness ==
  /\ CapRefused
  /\ opt.max_image_bytes_env = SetTo(<<"4", "7">>)
  /\ rs.order = 2
  /\ gh.opened = {}

\* The default cap of 256 MiB refused the buffer of order 14.
C14_WitnessDefault ==
  /\ CapRefused
  /\ opt.max_image_bytes_env = Unset
  /\ rs.order = 14

\* A cap of exactly the buffer's size, and the disabled cap, let the run
\* through.
C14_WitnessAtCap ==
  /\ Done
  /\ rs.ret = 1
  /\ opt.max_image_bytes_env \in {SetTo(<<"4", "8">>), SetTo(<<"0">>)}
  /\ rs.order = 2

\* The digits of 2^64 - 1.
MaxU64Text ==
  <<"1", "8", "4", "4", "6", "7", "4", "4", "0", "7", "3", "7", "0", "9", "5",
    "5", "1", "6", "1", "5">>

DigitValue(c) == CHOOSE v \in 0..9 : DecimalDigit[v + 1] = c

RECURSIVE StripZeros(_)
StripZeros(text) ==
  IF Len(text) > 1 /\ Head(text) = "0" THEN StripZeros(Tail(text)) ELSE text

\* a <= b for digit strings of one length
RECURSIVE DigitsLe(_, _)
DigitsLe(a, b) ==
  IF a = <<>> THEN TRUE
  ELSE IF DigitValue(Head(a)) # DigitValue(Head(b))
    THEN DigitValue(Head(a)) < DigitValue(Head(b))
  ELSE DigitsLe(Tail(a), Tail(b))

\* The text is an unsigned decimal number of at most 2^64 - 1.
ValidU64Decimal(text) ==
  /\ text # <<>>
  /\ \A i \in 1..Len(text) : \E v \in 1..10 : DecimalDigit[v] = text[i]
  /\ \/ Len(StripZeros(text)) < Len(MaxU64Text)
     \/ /\ Len(StripZeros(text)) = Len(MaxU64Text)
        /\ DigitsLe(StripZeros(text), MaxU64Text)

ConfigRefused ==
  Done /\ rs.ret = 0 /\ rs.err.msg = "invalid HILBERTVIZ_MAX_IMAGE_BYTES"

\* The run has resolved the cap.
CapResolved == gh.gate /\ rs.pc # "buffer"

\* C15 as stated: a cap override set to anything that is not a valid unsigned
\* decimal 64-bit number, the empty string included, fails the run with the
\* configuration error.
C15_InvalidCapRefused ==
  (CapResolved /\ opt.max_image_bytes_env.set
     /\ ~ValidU64Decimal(opt.max_image_bytes_env.text)) => ConfigRefused

\* C15 (amended): a cap override set to a non-empty value that is not a valid
\* unsigned decimal 64-bit number fails the run with the configuration error,
\* never with the default cap applied; a valid value is never refused as
\* configuration; the default applies when the variable is unset or empty.
C15_NonEmptyInvalidCapRefused ==
  CapResolved =>
    \E env \in {opt.max_image_bytes_env} :
      /\ (env.set /\ env.text # <<>> /\ ~ValidU64Decimal(env.text)) => ConfigRefused
      /\ ConfigRefused =>
           (env.set /\ env.text # <<>> /\ ~ValidU64Decimal(env.text))
      /\ (~env.set \/ env.text = <<>>) =>
           /\ CapInForce.ok
           /\ CapInForce.v = U64(HV_DEFAULT_MAX_IMAGE_BYTES)
           /\ CapRefused <=> (3 * rs.capacity > HV_DEFAULT_MAX_IMAGE_BYTES)

\* 2^64 as the override: one above the largest valid number, refused.
C15_Witness ==
  /\ ConfigRefused
  /\ Len(opt.max_image_bytes_env.text) = 20
  /\ rs.order = 1


-----------------------------------------------------------------------------
(* The slice stream of file_io.c: hv_open_file_slice_stream,                *)
(* hv_stream_read_exact and hv_close_input_stream, called in any order on   *)
(* one HvInputStream while another actor may truncate or extend the file.   *)

\* A FILE *: the inode it reads, the position of the next byte fread hands
\* out, the bytes stdio has read ahead of it, and the end-of-file indicator.
NoFile == [open |-> FALSE, ino |-> 0, pos |-> 0, buf |-> <<>>, eof |-> FALSE]

ZeroStream == [fp |-> NoFile, remaining |-> 0, total |-> 0]

StreamResult(ok, err, stream) == [ok |-> ok, err |-> err, stream |-> stream]

\* fopen(path, "rb").
fopen(fsys, path) ==
  Force({ IF w.st = "file" THEN [NoFile EXCEPT !.open = TRUE, !.ino = w.ino]
          ELSE NoFile
          : w \in {PathWalk(fsys, path, Cardinality(Names))} })

hv_seek_to_offset(fp, offset) ==
  IF offset = 0 THEN [ok |-> TRUE, fp |-> fp, err |-> NoError]
  ELSE IF offset > INT64_MAX
    THEN [ok |-> FALSE, fp |-> fp, err |-> Error("offset is too large for fseeko")]
  ELSE [ok |-> TRUE, fp |-> [fp EXCEPT !.pos = offset, !.buf = <<>>],
        err |-> NoError]

hv_open_file_slice_stream(fsys, filesys, path, offset, has_length, length, stream) ==
  Force({ IF ~fp.open
            THEN StreamResult(FALSE, Error("failed to open input"), ZeroStream)
          ELSE Force({
            IF ~v.ok THEN StreamResult(FALSE, v.err, ZeroStream)
            ELSE Force({
              IF ~s.ok THEN StreamResult(FALSE, s.err, ZeroStream)
              ELSE StreamResult(TRUE, NoError,
                                [fp |-> s.fp, remaining |-> v.slice_len,
                                 total |-> v.slice_len])
              : s \in {hv_seek_to_offset(fp, offset)} })
            : v \in {hv_validate_slice_from_file(Len(filesys[fp.ino]), offset,
                                                 has_length, length)} })
          : fp \in {fopen(fsys, path)} })

Min(a, b) == IF a < b THEN a ELSE b

\* fread(buf, 1, request, fp): the bytes stdio holds first, then the file; it
\* may read up to ahead bytes more than asked into its own buffer. A short
\* count means the end of the file was met, which sets the indicator; with
\* the indicator set the file is not read again.
fread(filesys, fp, request, ahead) ==
  Force({ Force({ Force({
    [n |-> from_buf + from_file,
     fp |-> [fp EXCEPT !.pos = @ + from_buf + from_file,
                       !.buf = SubSeq(data, from_buf + from_file + 1, Len(data)),
                       !.eof = @ \/ (from_buf + from_file < request)]]
    : data \in {fp.buf \o [i \in 1..(from_file + Min(ahead, avail - from_file))
                             |-> filesys[fp.ino][fp.pos + Len(fp.buf) + i]]} })
    : from_file \in {Min(request - from_buf, avail)} })
    : from_buf \in {Min(request, Len(fp.buf))},
      avail \in {IF fp.eof \/ request <= Len(fp.buf) THEN 0
                 ELSE IF Len(filesys[fp.ino]) > fp.pos + Len(fp.buf)
                   THEN Len(filesys[fp.ino]) - (fp.pos + Len(fp.buf))
                 ELSE 0} })

\* A short read is taken for a whole one.
hv_stream_read_exact_short_ok(filesys, stream, size, ahead) ==
  IF ~stream.fp.open
    THEN StreamResult(FALSE, Error("invalid arguments for stream read"), stream)
  ELSE IF size > stream.remaining
    THEN StreamResult(FALSE, Error("stream read exceeds remaining slice"), stream)
  ELSE StreamResult(TRUE, NoError,
                    [stream EXCEPT !.fp = fread(filesys, stream.fp, size, ahead).fp,
                                   !.remaining = @ - size])

\* The request is not compared with remaining.
hv_stream_read_exact_unchecked(filesys, stream, size, ahead) ==
  IF ~stream.fp.open
    THEN StreamResult(FALSE, Error("invalid arguments for stream read"), stream)
  ELSE Force({
    IF r.n < size
      THEN StreamResult(FALSE, Error("unexpected EOF while reading input stream"),
                        [stream EXCEPT !.fp = r.fp])
    ELSE StreamResult(TRUE, NoError,
                      [stream EXCEPT !.fp = r.fp, !.remaining = @ - size])
    : r \in {fread(filesys, stream.fp, size, ahead)} })

\* [ok, err, stream]; the loop asks fread for all that is missing, and a count
\* below the request ends the call, so fread is called once.
hv_stream_read_exact(filesys, stream, size, ahead) ==
  IF ~stream.fp.open
    THEN StreamResult(FALSE, Error("invalid arguments for stream read"), stream)
  ELSE IF size > stream.remaining
    THEN StreamResult(FALSE, Error("stream read exceeds remaining slice"), stream)
  ELSE IF size = 0 THEN StreamResult(TRUE, NoError, stream)
  ELSE Force({
    IF r.n < size
      THEN StreamResult(FALSE, Error("unexpected EOF while reading input stream"),
                        [stream EXCEPT !.fp = r.fp])
    ELSE StreamResult(TRUE, NoError,
                      [stream EXCEPT !.fp = r.fp, !.remaining = @ - size])
    : r \in {fread(filesys, stream.fp, size, ahead)} })

\* A failed fclose leaves the stream as it was.
hv_close_input_stream_keep(stream, rc) ==
  IF ~stream.fp.open THEN StreamResult(TRUE, NoError, stream)
  ELSE IF rc # 0
    THEN StreamResult(FALSE, Error("failed to close input stream"), stream)
  ELSE StreamResult(TRUE, NoError, ZeroStream)

\* rc is what fclose returns: 0 or EOF.
hv_close_input_stream(stream, rc) ==
  IF ~stream.fp.open
    THEN StreamResult(TRUE, NoError, [stream EXCEPT !.remaining = 0, !.total = 0])
  ELSE IF rc # 0
    THEN StreamResult(FALSE, Error("failed to close input stream"), ZeroStream)
  ELSE StreamResult(TRUE, NoError, ZeroStream)

\* The arguments the calls are made with.
StreamOffsets == {0, 1, MaxFileBytes, MaxFileBytes + 1}

StreamLengths == {0, 1, 2, MaxFileBytes, MaxFileBytes + 1, UINT64_MAX}

StreamSizes == 0..(MaxFileBytes + 1)

NoCall == [fn |-> "none", ok |-> TRUE, err |-> NoError]

InitStream ==
  /\ args = [fn |-> "stream"]
  /\ ret = -1
  /\ outs = Unwritten
  /\ walk = [d |-> 0, visited |-> {}]
  /\ opt = [input_path |-> InputPath]
  /\ \E len \in 0..MaxFileBytes :
       files = [i \in Inodes |-> IF i = 1 THEN PatternBytes(0, len) ELSE <<>>]
  /\ fs = [n \in Names |-> IF n = InputPath THEN FileEntry(1) ELSE NoEntry]
  /\ \E junk \in {0, 7} :
       rs = [pc |-> "stream",
             stream |-> [fp |-> NoFile, remaining |-> junk, total |-> junk]]
  /\ gh = [env |-> 0, calls |-> 0, truncated |-> FALSE, short |-> FALSE,
           offset |-> 0, count |-> 0, high |-> 0, last |-> NoCall]

StreamMay == rs.pc = "stream" /\ gh.calls < MaxStreamCalls

\* A caller opens a stream that holds no handle.
StreamOpen ==
  /\ StreamMay
  /\ ~rs.stream.fp.open
  /\ \E path \in {InputPath, OutputPath}, offset \in StreamOffsets,
        has_length \in BOOLEAN, length \in StreamLengths :
     \E r \in {hv_open_file_slice_stream(fs, files, path, offset, has_length,
                                         length, rs.stream)} :
       /\ has_length \/ length = 0
       /\ rs' = [rs EXCEPT !.stream = r.stream]
       /\ gh' = [gh EXCEPT
                   !.calls = @ + 1, !.truncated = FALSE, !.short = FALSE,
                   !.offset = offset,
                   !.count = 0, !.high = offset,
                   !.last = [fn |-> "open", ok |-> r.ok, err |-> r.err,
                             exists |-> stat(fs, path).ok,
                             file_size |-> IF stat(fs, path).ok THEN Len(FileAt(path))
                                           ELSE 0, offset |-> offset,
                             has_length |-> has_length, length |-> length]]
  /\ UNCHANGED <<engineVars, opt, fs, files>>

\* The bytes fread can still hand out: those stdio holds and those of the file
\* after them.
Available(filesys, fp) ==
  Len(fp.buf) + (IF Len(filesys[fp.ino]) > fp.pos + Len(fp.buf)
                   THEN Len(filesys[fp.ino]) - (fp.pos + Len(fp.buf)) ELSE 0)

StreamRead ==
  /\ StreamMay
  /\ \E size \in StreamSizes, ahead \in 0..MaxAhead :
     \E r \in {hv_stream_read_exact(files, rs.stream, size, ahead)} :
       /\ rs' = [rs EXCEPT !.stream = r.stream]
       /\ gh' = [gh EXCEPT
                   !.calls = @ + 1,
                   !.short = @ \/ (rs.stream.fp.open /\ r.stream.fp.eof),
                   !.count = IF r.ok THEN @ + size ELSE @,
                   !.high = IF r.ok /\ size > 0 THEN r.stream.fp.pos ELSE @,
                   !.last = [fn |-> "read", ok |-> r.ok, err |-> r.err,
                             size |-> size, before |-> rs.stream,
                             available |-> IF rs.stream.fp.open
                                             THEN Available(files, rs.stream.fp)
                                           ELSE 0,
                             truncated |-> gh.truncated]]
  /\ UNCHANGED <<engineVars, opt, fs, files>>

StreamClose ==
  /\ StreamMay
  /\ \E rc \in {0, -1} :
     \E r \in {hv_close_input_stream(rs.stream, rc)} :
       /\ rs' = [rs EXCEPT !.stream = r.stream]
       /\ gh' = [gh EXCEPT
                   !.calls = @ + 1,
                   !.last = [fn |-> "close", ok |-> r.ok, err |-> r.err,
                             rc |-> rc, before |-> rs.stream]]
  /\ UNCHANGED <<engineVars, opt, fs, files>>

StreamEnvMay == rs.pc = "stream" /\ gh.env < MaxEnvSteps

\* Another process truncates the input.
EnvTruncate ==
  /\ StreamEnvMay
  /\ \E len \in 0..MaxFileBytes :
       /\ len < Len(files[1])
       /\ files' = [files EXCEPT ![1] = SubSeq(@, 1, len)]
  /\ gh' = [gh EXCEPT !.env = @ + 1, !.truncated = rs.stream.fp.open]
  /\ UNCHANGED <<engineVars, opt, fs, rs>>

\* Another process appends a byte to the input.
EnvAppend ==
  /\ StreamEnvMay
  /\ Len(files[1]) < MaxFileBytes
  /\ files' = [files EXCEPT ![1] = Append(@, [k |-> "byte", v |-> 255])]
  /\ gh' = [gh EXCEPT !.env = @ + 1]
  /\ UNCHANGED <<engineVars, opt, fs, rs>>

NextStream ==
  \/ StreamOpen
  \/ StreamRead
  \/ StreamClose
  \/ EnvTruncate
  \/ EnvAppend

SpecStream == InitStream /\ [][NextStream]_vars

\* The slice the last hv_open_file_slice_stream call asked for lies in the file.
SliceInFile ==
  /\ gh.last.offset <= gh.last.file_size
  /\ gh.last.has_length =>
       /\ gh.last.length <= UINT64_MAX - gh.last.offset
       /\ gh.last.length <= gh.last.file_size - gh.last.offset

C16_WitnessRefused ==
  /\ gh.last.fn = "open"
  /\ ~gh.last.ok
  /\ gh.last.exists
  /\ gh.last.offset <= gh.last.file_size
  /\ gh.calls = 1
  /\ rs.stream = ZeroStream

\* An open refused because offset + length overflows.
C16_WitnessOverflow ==
  /\ gh.last.fn = "open"
  /\ ~gh.last.ok
  /\ gh.last.offset = 1
  /\ gh.last.file_size >= 1
  /\ gh.last.length = UINT64_MAX

\* C17: hv_stream_read_exact(stream, n) with n > remaining fails, reads
\* nothing and leaves the stream as it was; a successful call hands out exactly
\* n bytes and decreases remaining by n; no read changes total; on an open
\* stream 0 <= remaining <= total, total - remaining is the number of bytes the
\* successful reads delivered, and no delivered byte lies past the slice end.
C17_ReadExact ==
  /\ gh.last.fn = "read" =>
       /\ rs.stream.total = gh.last.before.total
       /\ gh.last.size > gh.last.before.remaining =>
            ~gh.last.ok /\ rs.stream = gh.last.before
       /\ gh.last.ok =>
            /\ rs.stream.fp.pos - gh.last.before.fp.pos = gh.last.size
            /\ rs.stream.remaining = gh.last.before.remaining - gh.last.size
       /\ ~gh.last.ok => rs.stream.remaining = gh.last.before.remaining
  /\ rs.stream.fp.open =>
       /\ 0 <= rs.stream.remaining
       /\ rs.stream.remaining <= rs.stream.total
       /\ rs.stream.total - rs.stream.remaining = gh.count
       /\ gh.high <= gh.offset + rs.stream.total

\* The second of two reads that leave part of the slice unread.
C17_Witness ==
  /\ gh.last.fn = "read"
  /\ gh.last.ok
  /\ gh.last.size = 1
  /\ gh.count = 2
  /\ gh.offset = 1
  /\ rs.stream.remaining > 0

\* A read past the slice end is refused although the file holds the bytes.
C17_WitnessRefused ==
  /\ gh.last.fn = "read"
  /\ ~gh.last.ok
  /\ gh.last.before.fp.open
  /\ gh.last.size > gh.last.before.remaining
  /\ gh.last.size <= gh.last.available
  /\ gh.count > 0

UnexpectedEof == Error("unexpected EOF while reading input stream")

\* C18: after another actor truncated the file behind an open stream, a read
\* of n <= remaining bytes for which fewer than n bytes are left at the read
\* position fails with the unexpected-EOF error and does not decrease
\* remaining; no read that gets a short count succeeds; and a stream that met
\* the end of the file this way is closed successfully when fclose succeeds.
C18_TruncationDetected ==
  /\ ( /\ gh.last.fn = "read"
       /\ gh.last.before.fp.open
       /\ gh.last.truncated
       /\ gh.last.size <= gh.last.before.remaining
       /\ gh.last.available < gh.last.size )
     => /\ ~gh.last.ok
        /\ gh.last.err = UnexpectedEof
        /\ rs.stream.remaining = gh.last.before.remaining
        /\ rs.stream.total = gh.last.before.total
  /\ ( /\ gh.last.fn = "read"
       /\ gh.last.before.fp.open
       /\ gh.last.ok )
     => gh.last.available >= gh.last.size
  /\ ( /\ gh.last.fn = "close"
       /\ gh.last.before.fp.open
       /\ gh.short
       /\ gh.last.rc = 0 )
     => gh.last.ok /\ rs.stream = ZeroStream

\* The truncate-race test: the file is cut before the first read, the read of
\* the whole slice fails, the close succeeds.
C18_Witness ==
  /\ gh.last.fn = "close"
  /\ gh.last.ok
  /\ gh.last.before.fp.open
  /\ gh.last.before.remaining = MaxFileBytes
  /\ gh.truncated
  /\ gh.short
  /\ Len(files[1]) = 2

\* A read that fails on a truncated file after part of the slice was read.
C18_WitnessPartial ==
  /\ gh.last.fn = "read"
  /\ ~gh.last.ok
  /\ gh.last.truncated
  /\ gh.last.err = UnexpectedEof
  /\ gh.count > 0
  /\ gh.last.available > 0

\* Bytes that stdio read before the truncation are still handed out.
C18_WitnessBuffered ==
  /\ gh.last.fn = "read"
  /\ gh.last.ok
  /\ gh.last.truncated
  /\ gh.last.size > 0
  /\ Len(files[1]) < rs.stream.fp.pos

\* C19: hv_close_input_stream leaves the stream with no handle and remaining =
\* total = 0 whatever fclose returns; it returns an error exactly when the
\* stream held a handle and fclose failed; on a stream that holds no handle it
\* succeeds, and on an already closed stream it changes nothing;
\* hv_stream_read_exact on a stream without a handle fails and changes nothing.
C19_CloseIdempotent ==
  /\ gh.last.fn = "close" =>
       /\ rs.stream = ZeroStream
       /\ gh.last.ok <=> (~gh.last.before.fp.open \/ gh.last.rc = 0)
       /\ ~gh.last.ok => gh.last.err = Error("failed to close input stream")
       /\ gh.last.before = ZeroStream => gh.last.ok
  /\ ( /\ gh.last.fn = "read"
       /\ ~gh.last.before.fp.open )
     => /\ ~gh.last.ok
        /\ gh.last.err = Error("invalid arguments for stream read")
        /\ rs.stream = gh.last.before

\* A close whose fclose failed, on a stream with unread bytes.
C19_Witness ==
  /\ gh.last.fn = "close"
  /\ ~gh.last.ok
  /\ gh.last.rc # 0
  /\ gh.last.before.fp.open
  /\ gh.last.before.remaining > 0
  /\ gh.last.before.remaining < gh.last.before.total

\* A second close, after one whose fclose failed.
C19_WitnessTwice ==
  /\ gh.last.fn = "close"
  /\ gh.last.ok
  /\ gh.last.rc # 0
  /\ gh.last.before = ZeroStream
  /\ gh.calls = 3

\* A read of no bytes on a closed stream.
C19_WitnessReadClosed ==
  /\ gh.last.fn = "read"
  /\ gh.last.before = ZeroStream
  /\ gh.last.size = 0
  /\ gh.calls = 3
  /\ ~gh.last.ok


-----------------------------------------------------------------------------
(* The auto_order selection of hv_select_geometry beside                    *)
(* hv_hilbert_pick_order, over small slices and the capacity boundaries.    *)

CallSelectAutoOrder ==
  /\ args.fn = "none"
  /\ \E paginate \in BOOLEAN, input_bytes \in ByteCounts :
       /\ args' = [fn |-> "select_auto_order", paginate |-> paginate,
                   input_bytes |-> input_bytes]
       /\ ret' = [selected |-> hv_select_auto_order(paginate, input_bytes),
                  picked |-> hv_hilbert_pick_order(input_bytes)]
       /\ UNCHANGED <<outs, walk, renderVars>>

NextShortcut == CallSelectAutoOrder

SpecShortcut == InitCalls /\ [][NextShortcut]_vars

\* A paginated auto-order selection for a slice above the default page order's
\* capacity.
ShortcutTaken ==
  /\ args.fn = "select_auto_order"
  /\ args.paginate
  /\ U64Lt(Pow4U64(page_order), args.input_bytes)

SameSelection(a, b) ==
  /\ a.ok = b.ok
  /\ a.order = b.order
  /\ a.side = b.side
  /\ a.capacity = b.capacity

-----------------------------------------------------------------------------
(* Consecutive indices: d2xy for d = 0, 1, ... of one rectangle or of one   *)
(* order, each coordinate compared with the one before it.                  *)

Abs(n) == IF n < 0 THEN -n ELSE n

Manhattan(a, b) == Abs(a.x - b.x) + Abs(a.y - b.y)

StepDims == 1..MaxStepDim

InitSteps ==
  /\ args \in [fn : {"gilbert_steps"}, width : StepDims, height : StepDims]
                \cup [fn : {"hilbert_steps"}, order : 1..MaxWalkOrder]
  /\ ret = -1
  /\ outs = Unwritten
  /\ walk = [d |-> 0, jumps |-> {}, deep |-> 0]
  /\ RenderIdle

\* The d at which the walk records a step that is not one cell up, down, left
\* or right of the coordinate before it (or a call that failed).
Jumps(w, r) ==
  IF r.ret # 1 THEN w.jumps \cup {w.d}
  ELSE IF w.d > 0 /\ Manhattan(outs, r.out) # 1 THEN w.jumps \cup {w.d}
  ELSE w.jumps

GilbertStep ==
  /\ args.fn = "gilbert_steps"
  /\ walk.d < args.width * args.height
  /\ \E r \in {hv_gilbert_d2xy(args.width, args.height, walk.d, outs)} :
       /\ ret' = r.ret
       /\ outs' = r.out
       /\ walk' = [d |-> walk.d + 1, jumps |-> Jumps(walk, r),
                   deep |-> IF r.deep > walk.deep THEN r.deep ELSE walk.deep]
  /\ UNCHANGED <<args, renderVars>>

HilbertStep ==
  /\ args.fn = "hilbert_steps"
  /\ walk.d < 4^args.order
  /\ \E r \in {hv_hilbert_d2xy(args.order, U64(walk.d), outs)} :
       /\ ret' = r.ret
       /\ outs' = r.out
       /\ walk' = [d |-> walk.d + 1, jumps |-> Jumps(walk, r), deep |-> 0]
  /\ UNCHANGED <<args, renderVars>>

NextSteps == GilbertStep \/ HilbertStep

SpecSteps == InitSteps /\ [][NextSteps]_vars

\* C21: the walk of a rectangle whose larger side is odd and whose smaller
\* side is even has, once it is complete, at least one step between cells
\* that are not 4-connected.
C21_RejectedHasDiagonal ==
  ( /\ args.fn = "gilbert_steps"
    /\ hv_rect_has_unavoidable_diagonal(args.width, args.height)
    /\ walk.d = args.width * args.height )
  => walk.jumps # {}

C21_Witness ==
  /\ args.fn = "gilbert_steps"
  /\ args.width = 5
  /\ args.height = 4
  /\ walk.d = 20
  /\ walk.jumps # {}
  /\ ret = 1

\* C24: in the walk of a rectangle that strict adjacency accepts, every step
\* goes to a 4-connected cell.
C24_AcceptedIsConnected ==
  ( /\ args.fn = "gilbert_steps"
    /\ ~hv_rect_has_unavoidable_diagonal(args.width, args.height) )
  => walk.jumps = {}

C24_Witness ==
  /\ args.fn = "gilbert_steps"
  /\ args.width = 5
  /\ args.height = 7
  /\ walk.d = 35
  /\ walk.jumps = {}

\* C28: hv_hilbert_d2xy maps d = 0 to (0, 0) and every d, d + 1 below 4^order
\* to 4-connected cells.
C28_HilbertConnected ==
  args.fn = "hilbert_steps" =>
    /\ walk.jumps = {}
    /\ walk.d = 1 => outs = [x |-> 0, y |-> 0]

C28_Witness ==
  /\ args.fn = "hilbert_steps"
  /\ args.order = MaxWalkOrder
  /\ walk.d = 4^args.order
  /\ walk.jumps = {}


-----------------------------------------------------------------------------
(* Both engines on the square of one order.                                 *)

CallBothEngines ==
  /\ args.fn = "none"
  /\ \E order \in 1..MaxWalkOrder :
     \E d \in 0..(4^order - 1) :
       /\ args' = [fn |-> "both_engines", order |-> order, d |-> d]
       /\ ret' = [hilbert |-> hv_hilbert_d2xy(order, U64(d), Unwritten),
                  gilbert |-> hv_gilbert_d2xy(2^order, 2^order, d, Unwritten)]
       /\ UNCHANGED <<outs, walk, renderVars>>

NextSquare == CallBothEngines

SpecSquare == InitCalls /\ [][NextSquare]_vars

\* C27: for every order walked and every d < 4^order, hv_gilbert_d2xy on the
\* 2^order x 2^order square succeeds with the coordinate hv_hilbert_d2xy
\* returns for that order and d.
C27_GilbertIsHilbertOnSquares ==
  args.fn = "both_engines" =>
    /\ ret.hilbert.ret = 1
    /\ ret.gilbert.ret = 1
    /\ ret.gilbert.out = ret.hilbert.out

C27_Witness ==
  /\ args.fn = "both_engines"
  /\ args.order = MaxWalkOrder
  /\ args.d = 4^args.order - 1
  /\ ret.gilbert.ret = 1
  /\ ret.gilbert.out = [x |-> 2^args.order - 1, y |-> 0]


\* ceil(log2 n) for n >= 1.
CeilLog2(n) == CHOOSE k \in 0..30 : 2^k >= n /\ (k = 0 \/ 2^(k - 1) < n)

DepthBound(width, height) == 2 * (CeilLog2(width) + CeilLog2(height)) + 2

-----------------------------------------------------------------------------
(* The checked operations of the Arithmetic Guard, one call each, as the    *)
(* compiler-builtin build and as the portable build compile them.           *)

\* a / b of C for b # 0: the quotient rounded toward zero.
CDiv(a, b) ==
  IF (a >= 0) = (b > 0) THEN Abs(a) \div Abs(b) ELSE -(Abs(a) \div Abs(b))

\* hv_i64_sub where __builtin_sub_overflow is available: success exactly when
\* a - b fits the signed word.
hv_i64_sub_builtin(a, b) ==
  IF a - b > INT64_MAX \/ a - b < INT64_MIN THEN [ok |-> FALSE, v |-> 0]
  ELSE [ok |-> TRUE, v |-> a - b]

\* What a build makes of INT64_MIN / -1, which C leaves undefined: a trap, or
\* some quotient.
UbOutcomes ==
  {[trap |-> TRUE, v |-> 0], [trap |-> FALSE, v |-> INT64_MIN],
   [trap |-> FALSE, v |-> INT64_MAX]}

\* hv_i64_mul without the builtin (the #else branch); ub is what INT64_MIN / b
\* does when b = -1.
hv_i64_mul_portable(a, b, ub) ==
  IF a = 0 \/ b = 0 THEN [ok |-> TRUE, v |-> 0, trap |-> FALSE]
  ELSE IF a = -1 /\ b = INT64_MIN THEN [ok |-> FALSE, v |-> 0, trap |-> FALSE]
  ELSE IF b = -1 /\ a = INT64_MIN THEN [ok |-> FALSE, v |-> 0, trap |-> FALSE]
  ELSE IF a > CDiv(INT64_MAX, b) THEN [ok |-> FALSE, v |-> 0, trap |-> FALSE]
  ELSE IF b = -1 /\ ub.trap THEN [ok |-> FALSE, v |-> 0, trap |-> TRUE]
  ELSE IF a < (IF b = -1 THEN ub.v ELSE CDiv(INT64_MIN, b))
    THEN [ok |-> FALSE, v |-> 0, trap |-> FALSE]
  ELSE [ok |-> TRUE, v |-> a * b, trap |-> FALSE]

\* Operands: small values, the ends of the words, their halves and the values
\* around the square root of the largest word.
GuardI64 ==
  ((-GuardSmall)..GuardSmall)
    \cup {INT64_MIN, INT64_MIN + 1, INT64_MIN + 2, INT64_MAX - 1, INT64_MAX,
          INT64_MIN \div 2, (INT64_MIN \div 2) - 1, (INT64_MAX \div 2) + 1,
          INT64_MAX \div 2, 32767, 32768, -32768, -32769}

GuardU64 ==
  (0..GuardSmall)
    \cup {UINT64_MAX, UINT64_MAX - 1, INT64_MAX, INT64_MAX + 1, INT64_MAX + 2,
          UINT64_MAX \div 2, 46340, 46341, 65535, 65536}

Returned(r) == [ok |-> r.ok, v |-> r.v, trap |-> FALSE]

GuardCall(op, build, a, b, r) ==
  /\ args.fn = "none"
  /\ args' = [fn |-> "guard", op |-> op, build |-> build, a |-> a, b |-> b]
  /\ ret' = r
  /\ UNCHANGED <<outs, walk, renderVars>>

CallI64Add ==
  \E a \in GuardI64, b \in GuardI64 :
    GuardCall("i64_add", "any", a, b, Returned(hv_i64_add(a, b)))

CallI64Sub ==
  \E a \in GuardI64, b \in GuardI64 :
    \/ GuardCall("i64_sub", "builtin", a, b, Returned(hv_i64_sub_builtin(a, b)))
    \/ GuardCall("i64_sub", "portable", a, b, Returned(hv_i64_sub(a, b)))

CallI64Neg ==
  \E a \in GuardI64 : GuardCall("i64_neg", "any", a, 0, Returned(hv_i64_neg(a)))

CallI64Mul ==
  \E a \in GuardI64, b \in GuardI64 :
    \/ GuardCall("i64_mul", "builtin", a, b, Returned(hv_i64_mul(a, b)))
    \/ \E ub \in UbOutcomes :
         GuardCall("i64_mul", "portable", a, b, hv_i64_mul_portable(a, b, ub))

CallI64AbsToU64 ==
  \E a \in GuardI64 :
    GuardCall("i64_abs_to_u64", "any", a, 0, Returned(hv_i64_abs_to_u64(a)))

CallU64ToI64 ==
  \E a \in GuardU64 :
    GuardCall("u64_to_i64", "any", a, 0, Returned(hv_u64_to_i64(a)))

CallU64Add ==
  \E a \in GuardU64, b \in GuardU64 :
    GuardCall("u64_add", "any", a, b, Returned(hv_u64_add(a, b)))

CallU64Mul ==
  \E a \in GuardU64, b \in GuardU64 :
    GuardCall("u64_mul", "any", a, b, Returned(hv_u64_mul(a, b)))

NextGuard ==
  \/ CallI64Add
  \/ CallI64Sub
  \/ CallI64Neg
  \/ CallI64Mul
  \/ CallI64AbsToU64
  \/ CallU64ToI64
  \/ CallU64Add
  \/ CallU64Mul

SpecGuard == InitCalls /\ [][NextGuard]_vars

\* Exact arithmetic for the properties: a natural number below 2^31 as three
\* digits of base 2^15, sums and products as six.
Base == 2^15

Digits(n) == <<n % Base, (n \div Base) % Base, n \div (Base * Base), 0, 0, 0>>

\* Carries moved up, lowest digit first.
RECURSIVE Carried(_, _, _)
Carried(cols, i, carry) ==
  IF i > Len(cols) THEN <<>>
  ELSE <<(cols[i] + carry) % Base>>
         \o Carried(cols, i + 1, (cols[i] + carry) \div Base)

ExactSum(x, y) == Carried([i \in 1..6 |-> x[i] + y[i]], 1, 0)

ExactProduct(x, y) ==
  Carried(<<x[1] * y[1],
            x[1] * y[2] + x[2] * y[1],
            x[1] * y[3] + x[2] * y[2] + x[3] * y[1],
            x[2] * y[3] + x[3] * y[2],
            x[3] * y[3],
            0>>, 1, 0)

\* x <= y, from the highest digit down.
RECURSIVE DigitsLeFrom(_, _, _)
DigitsLeFrom(x, y, i) ==
  IF i = 0 THEN TRUE
  ELSE IF x[i] # y[i] THEN x[i] < y[i]
  ELSE DigitsLeFrom(x, y, i - 1)

\* The number a digit sequence that fits a word stands for.
ValueOf(x) == x[1] + Base * x[2] + (Base * Base) * x[3]

Sign(n) == IF n < 0 THEN -1 ELSE 1

\* [fits, v] for an exact result of sign s and magnitude m in the signed word.
InI64(s, m) ==
  IF m = Digits(0) THEN [fits |-> TRUE, v |-> 0]
  ELSE IF s > 0
    THEN [fits |-> DigitsLeFrom(m, Digits(INT64_MAX), 6),
          v |-> IF DigitsLeFrom(m, Digits(INT64_MAX), 6) THEN ValueOf(m) ELSE 0]
  ELSE [fits |-> DigitsLeFrom(m, Digits(-INT64_MIN), 6),
        v |-> IF DigitsLeFrom(m, Digits(-INT64_MIN), 6) THEN -ValueOf(m) ELSE 0]

InU64(m) ==
  [fits |-> DigitsLeFrom(m, Digits(UINT64_MAX), 6),
   v |-> IF DigitsLeFrom(m, Digits(UINT64_MAX), 6) THEN ValueOf(m) ELSE 0]

\* a + b of two integers whose magnitudes are at most 2^30.
SignedSum(a, b) ==
  IF Sign(a) = Sign(b)
    THEN InI64(Sign(a), ExactSum(Digits(Abs(a)), Digits(Abs(b))))
  ELSE InI64(Sign(a + b), Digits(Abs(a + b)))

\* The exact result of the call in args, and whether its result type holds it.
Exact ==
  CASE args.op = "i64_add" -> SignedSum(args.a, args.b)
    [] args.op = "i64_sub" -> SignedSum(args.a, -args.b)
    [] args.op = "i64_neg" -> InI64(-Sign(args.a), Digits(Abs(args.a)))
    [] args.op = "i64_mul" ->
         InI64(Sign(args.a) * Sign(args.b),
               ExactProduct(Digits(Abs(args.a)), Digits(Abs(args.b))))
    [] args.op = "i64_abs_to_u64" -> InU64(Digits(Abs(args.a)))
    [] args.op = "u64_to_i64" -> InI64(1, Digits(args.a))
    [] args.op = "u64_add" -> InU64(ExactSum(Digits(args.a), Digits(args.b)))
    [] args.op = "u64_mul" -> InU64(ExactProduct(Digits(args.a), Digits(args.b)))

\* The call in args returned success exactly when its exact result fits, with
\* that result, and did not trap.
GuardExact ==
  /\ ~ret.trap
  /\ ret.ok <=> Exact.fits
  /\ ret.ok => ret.v = Exact.v

C26_GuardExactButPortableMul ==
  (args.fn = "guard" /\ ~(args.op = "i64_mul" /\ args.build = "portable")) =>
    IF args.op = "i64_abs_to_u64" /\ args.a = INT64_MIN THEN ~ret.ok
    ELSE GuardExact

\* The portable hv_i64_mul never succeeds with a wrong product.
C26_PortableMulNeverWraps ==
  (args.fn = "guard" /\ ret.ok) => (Exact.fits /\ ret.v = Exact.v)

\* A product of a positive and a negative factor that fits and is refused.
C26_PortableMulRefused ==
  /\ args.fn = "guard"
  /\ args.op = "i64_mul"
  /\ args.build = "portable"
  /\ args.a = 2
  /\ args.b = -3
  /\ ~ret.ok

\* The undefined division is reached.
C26_PortableMulTraps ==
  /\ args.fn = "guard"
  /\ args.op = "i64_mul"
  /\ args.a = -INT64_MAX
  /\ args.b = -1
  /\ ret.trap


-----------------------------------------------------------------------------
(* The page output paths of one run: hv_build_page_output_path called for   *)
(* two pages of the same run.                                               *)

BasePaths ==
  {<<>>, <<"o">>, <<"o", ".", "p">>, <<"o", ".">>, <<".", "h">>,
   <<"a", ".", "b", ".", "c">>, <<"d", ".", "x", "/", "o">>,
   <<"d", "/", "o", ".", "p">>, <<"d", ".", "x", "/", "o", ".", "p">>,
   <<"d", "/">>}

PathPageCounts == (0..MaxPathPages) \cup {10, 9999, 10000, 12345}

\* The page indices tried for a run of count pages; a run without pages asks
\* for no path, a call with count 0 is made with index 0.
PathPageIndices(count) ==
  {i \in {0, 1, 2, 8, 9, 10, 98, 99, 998, 999, 9998, 9999, 12344} :
     i < count \/ i = 0}

CallBuildPagePath ==
  \E base \in BasePaths, count \in PathPageCounts :
    \E i \in PathPageIndices(count), j \in PathPageIndices(count) :
      /\ args.fn = "none"
      /\ args' = [fn |-> "hv_build_page_output_path", base_path |-> base,
                  page_count |-> count, i |-> i, j |-> j]
      /\ ret' = [i |-> hv_build_page_output_path(base, i, count),
                 j |-> hv_build_page_output_path(base, j, count)]
      /\ UNCHANGED <<outs, walk, renderVars>>

NextPath == CallBuildPagePath

SpecPath == InitCalls /\ [][NextPath]_vars

\* Where the extension of a path starts: at the last "." with no "/" after
\* it, one past the end when there is none.
ExtensionAt(path) ==
  LET dots == {k \in 1..Len(path) :
                 /\ path[k] = "."
                 /\ \A m \in (k + 1)..Len(path) : path[m] # "/"
                 /\ \A m \in (k + 1)..Len(path) : path[m] # "."}
  IN IF dots = {} THEN Len(path) + 1 ELSE CHOOSE k \in dots : TRUE

\* The number of decimal digits of n.
DigitsOf(n) == CHOOSE k \in 1..10 : n < 10^k /\ (k = 1 \/ n >= 10^(k - 1))

\* n in decimal, zero-padded to w digits; n has at most w digits.
ZeroPadded(n, w) == [k \in 1..w |-> DecimalDigit[((n \div 10^(w - k)) % 10) + 1]]

PageTag(i, count) ==
  <<"_", "p", "a", "g", "e">>
    \o ZeroPadded(i + 1, IF DigitsOf(count) > 4 THEN DigitsOf(count) ELSE 4)

Inserted(path, at, tag) ==
  [k \in 1..(Len(path) + Len(tag)) |->
     IF k < at THEN path[k]
     ELSE IF k < at + Len(tag) THEN tag[k - at + 1]
     ELSE path[k - Len(tag)]]

\* C22: for at most one page the base path is returned unchanged; otherwise
\* "_page" and the 1-based page number, zero-padded to max(4, digits of the
\* page count), is inserted immediately before the extension (the last "."
\* after the last "/", the end of the path when there is none), and the paths
\* of two distinct pages differ.
C22_PagePath ==
  args.fn = "hv_build_page_output_path" =>
    IF args.page_count <= 1 THEN ret.i = args.base_path
    ELSE /\ ret.i = Inserted(args.base_path, ExtensionAt(args.base_path),
                             PageTag(args.i, args.page_count))
         /\ ret.j = Inserted(args.base_path, ExtensionAt(args.base_path),
                             PageTag(args.j, args.page_count))
         /\ args.i # args.j => ret.i # ret.j

\* Two pages of a five-digit run whose base path has a dot in a directory
\* name and two in the file name.
C22_Witness ==
  /\ args.fn = "hv_build_page_output_path"
  /\ args.page_count = 12345
  /\ args.i = 9
  /\ args.j = 9998
  /\ args.base_path = <<"a", ".", "b", ".", "c">>
  /\ ret.i = <<"a", ".", "b", "_", "p", "a", "g", "e", "0", "0", "0", "1", "0", ".", "c">>
  /\ ret.j # ret.i


-----------------------------------------------------------------------------
(* Painting: the page loop of hv_render_file byte by byte (memset, the      *)
(* chunk read, hv_paint_byte per byte, the hand-over to the encoder), and   *)
(* hv_paint_byte called on its own.  The pixel buffer is a sequence of      *)
(* bytes; the byte at offset k is element k + 1.                             *)

HV_READ_CHUNK_BYTES == 65536

hv_scale_channel(min_v, max_v, pos, span) ==
  IF span = 0 THEN max_v
  ELSE (min_v + ((pos * (max_v - min_v)) + (span \div 2)) \div span) % 256

\* rgb_out after hv_byte_to_rgb(value, rgb_out).
hv_byte_to_rgb(value) ==
  IF value = 0 THEN <<0, 0, 0>>
  ELSE IF value <= 31 THEN <<0, hv_scale_channel(32, 255, value - 1, 31 - 1), 0>>
  ELSE IF value <= 126 THEN <<0, 0, hv_scale_channel(32, 255, value - 32, 126 - 32)>>
  ELSE <<hv_scale_channel(32, 255, value - 127, 255 - 127), 0, 0>>

\* The buffer left as it was.
memset_nothing(pixels, c, n) == pixels

memset(pixels, c, n) == [k \in 1..Len(pixels) |-> IF k <= n THEN c ELSE pixels[k]]

\* No offset is refused.
hv_pixel_index_never_out_of_range(byte_index_u64, pixel_bytes_u64) == FALSE

\* (byte_index_u64 + 2u) >= pixel_bytes_u64
hv_pixel_index_out_of_range(byte_index_u64, pixel_bytes_u64) ==
  (IF byte_index_u64 > UINT64_MAX - 2 THEN byte_index_u64 - (UINT64_MAX - 1)
   ELSE byte_index_u64 + 2) >= pixel_bytes_u64

PaintError(pixels, msg, mapped, out) ==
  [ok |-> FALSE, pixels |-> pixels, err |-> msg, mapped |-> mapped,
   x |-> out.x, y |-> out.y, offsets |-> {}]

\* The three stores of hv_paint_byte; a store past the end of the buffer is
\* recorded in offsets and leaves the modelled buffer alone.
PaintStores(pixels, byte_index, rgb) ==
  [k \in 1..Len(pixels) |->
     IF k - 1 \in byte_index..(byte_index + 2) THEN rgb[k - byte_index]
     ELSE pixels[k]]

hv_paint_byte(pixels, pixel_bytes_u64, layout, order, width, height, d, value) ==
  IF pixels = NULL THEN PaintError(pixels, "invalid image buffer", FALSE, Unwritten)
  ELSE IF width = 0 \/ height = 0
    THEN PaintError(pixels, "invalid image dimensions", FALSE, Unwritten)
  ELSE IF layout # HV_LAYOUT_HILBERT /\ layout # HV_LAYOUT_RECT_HILBERT
    THEN PaintError(pixels, "unknown layout mode", FALSE, Unwritten)
  ELSE Force({
    IF m.ret = 0
      THEN PaintError(pixels, IF layout = HV_LAYOUT_HILBERT
                                THEN "hilbert mapping failed"
                                ELSE "gilbert mapping failed", TRUE, Unwritten)
    ELSE IF m.out.x >= width \/ m.out.y >= height
      THEN PaintError(pixels, "mapped coordinate out of range", TRUE, m.out)
    ELSE IF ~hv_mul_u64(m.out.y, width).ok
            \/ ~hv_add_u64(hv_mul_u64(m.out.y, width).v, m.out.x).ok
      THEN PaintError(pixels, "pixel coordinate overflow", TRUE, m.out)
    ELSE Force({
      IF ~byte_index.ok
        THEN PaintError(pixels, "pixel byte index overflow", TRUE, m.out)
      ELSE IF hv_pixel_index_out_of_range(byte_index.v, pixel_bytes_u64)
        THEN PaintError(pixels, "pixel index out of range", TRUE, m.out)
      ELSE [ok |-> TRUE,
            pixels |-> PaintStores(pixels, byte_index.v, hv_byte_to_rgb(value)),
            err |-> "", mapped |-> TRUE, x |-> m.out.x, y |-> m.out.y,
            offsets |-> byte_index.v..(byte_index.v + 2)]
      : byte_index \in {hv_mul_u64(hv_add_u64(hv_mul_u64(m.out.y, width).v,
                                              m.out.x).v, 3)} })
    : m \in {IF layout = HV_LAYOUT_HILBERT
               THEN [ret |-> hv_hilbert_d2xy(order, U64(d), Unwritten).ret,
                     out |-> hv_hilbert_d2xy(order, U64(d), Unwritten).out]
               ELSE [ret |-> hv_gilbert_d2xy(width, height, d, Unwritten).ret,
                     out |-> hv_gilbert_d2xy(width, height, d, Unwritten).out]} })

\* The byte values painted: the ends of the four palette ranges and a letter.
PaintValues == <<0, 1, 31, 32, 126, 127, 255, 65>>

PaintInput(len, shift) ==
  [i \in 1..len |-> PaintValues[((i + shift) % Len(PaintValues)) + 1]]

PaintOptionSets ==
  {[OptionsOf(OutputPath, NULL, FALSE, TRUE) EXCEPT !.order = o] : o \in 1..2}
    \cup {[OptionsOf(OutputPath, NULL, FALSE, TRUE) EXCEPT
             !.layout = HV_LAYOUT_RECT_HILBERT, !.dimensions_set = TRUE,
             !.width = w, !.height = h] :
            w \in 1..MaxPaintDim, h \in 1..MaxPaintDim}

NoPaint ==
  [called |-> FALSE, d |-> 0, capacity |-> 0, width |-> 0, height |-> 0,
   pixel_bytes |-> 0, before |-> <<>>, ok |-> FALSE, pixels |-> <<>>,
   err |-> "", mapped |-> FALSE, x |-> 0, y |-> 0, offsets |-> {}]

PaintOf(r, d, capacity, width, height, pixel_bytes, before) ==
  [called |-> TRUE, d |-> d, capacity |-> capacity, width |-> width,
   height |-> height, pixel_bytes |-> pixel_bytes, before |-> before,
   ok |-> r.ok, pixels |-> r.pixels, err |-> r.err, mapped |-> r.mapped,
   x |-> r.x, y |-> r.y, offsets |-> r.offsets]

\* hv_render_file with the geometry selected, the page count computed and the
\* buffer of 3 * capacity bytes from calloc, at the head of the page loop.
InitPaint ==
  /\ args = [fn |-> "paint"]
  /\ ret = -1
  /\ outs = Unwritten
  /\ walk = [d |-> 0, visited |-> {}]
  /\ opt \in PaintOptionSets
  /\ fs = <<>>
  /\ \E len \in 0..MaxPaintBytes, shift \in 0..1 : files = PaintInput(len, shift)
  /\ \E g \in {hv_select_geometry(opt, Len(files))} :
       rs = [pc |-> "page", ret |-> -1, err |-> "", order |-> g.order,
             width |-> g.width, height |-> g.height, capacity |-> g.capacity,
             total |-> Len(files), remaining |-> Len(files),
             page_count |-> hv_page_count(Len(files), g.capacity),
             page_index |-> 0, d |-> 0, page_input_bytes |-> 0,
             read_buf |-> <<>>, i |-> 0,
             pixel_bytes |-> hv_mul_u64(g.capacity, 3).v,
             pixels |-> [k \in 1..hv_mul_u64(g.capacity, 3).v |-> 0]]
  /\ gh = [env |-> 0, last |-> NoPaint, encoded |-> <<>>, stale |-> FALSE]

\* The head of the loop body: memset of the buffer, the page's byte count.
PaintPageStart ==
  /\ rs.pc = "page"
  /\ rs.page_index < rs.page_count
  /\ rs' = [rs EXCEPT
              !.pixels = memset(rs.pixels, 0, rs.pixel_bytes),
              !.d = 0,
              !.page_input_bytes = Min(rs.remaining, rs.capacity),
              !.read_buf = <<>>,
              !.i = 0,
              !.pc = "read"]
  /\ gh' = [gh EXCEPT !.stale = @ \/ (\E k \in 1..Len(rs.pixels) : rs.pixels[k] # 0)]
  /\ UNCHANGED <<engineVars, opt, fs, files>>

\* while (d < page_input_bytes): the next chunk read from the stream.
PaintReadChunk ==
  /\ rs.pc = "read"
  /\ rs.d < rs.page_input_bytes
  /\ \E chunk \in {Min(HV_READ_CHUNK_BYTES, rs.page_input_bytes - rs.d)} :
       rs' = [rs EXCEPT
                !.read_buf = SubSeq(files, (rs.total - rs.remaining) + 1,
                                    (rs.total - rs.remaining) + chunk),
                !.remaining = @ - chunk,
                !.i = 0,
                !.pc = "paint"]
  /\ UNCHANGED <<engineVars, opt, fs, files, gh>>

\* for (i = 0u; i < chunk; ++i, ++d): one hv_paint_byte.
PaintByte ==
  /\ rs.pc = "paint"
  /\ rs.i < Len(rs.read_buf)
  /\ \E r \in {hv_paint_byte(rs.pixels, rs.pixel_bytes, opt.layout, rs.order,
                             rs.width, rs.height, rs.d, rs.read_buf[rs.i + 1])} :
       /\ rs' = IF r.ok
                  THEN [rs EXCEPT !.pixels = r.pixels, !.i = @ + 1, !.d = @ + 1,
                                  !.pc = IF rs.i + 1 < Len(rs.read_buf) THEN "paint"
                                         ELSE "read"]
                ELSE [rs EXCEPT !.pc = "done", !.ret = 0, !.err = r.err,
                                !.pixels = <<>>]
       /\ gh' = [gh EXCEPT !.last = PaintOf(r, rs.d, rs.capacity, rs.width,
                                            rs.height, rs.pixel_bytes, rs.pixels)]
  /\ UNCHANGED <<engineVars, opt, fs, files>>

\* The loop left: the buffer handed to hv_write_image_stream, the next page.
PaintEncode ==
  /\ rs.pc = "read"
  /\ rs.d >= rs.page_input_bytes
  /\ gh' = [gh EXCEPT !.encoded =
              Append(@, [page |-> rs.page_index, pixels |-> rs.pixels,
                         bytes |-> rs.d])]
  /\ rs' = [rs EXCEPT !.page_index = @ + 1,
                      !.pc = IF rs.page_index + 1 < rs.page_count THEN "page"
                             ELSE "done",
                      !.ret = IF rs.page_index + 1 < rs.page_count THEN @ ELSE 1,
                      !.pixels = IF rs.page_index + 1 < rs.page_count THEN @
                                 ELSE <<>>]
  /\ UNCHANGED <<engineVars, opt, fs, files>>

\* hv_paint_byte on its own, where there is no input to render: the layout
\* and order of the options, a buffer of any length, and for the square
\* layout any width and height.
CallPaintByte ==
  /\ rs.pc = "page"
  /\ rs.page_index = 0
  /\ rs.total = 0
  /\ \E width \in IF opt.layout = HV_LAYOUT_HILBERT THEN 1..MaxPaintDim
                   ELSE {opt.width} :
     \E height \in IF opt.layout = HV_LAYOUT_HILBERT THEN 1..MaxPaintDim
                    ELSE {opt.height} :
     \E d \in 0..(MaxPaintDim * MaxPaintDim) :
     \E pixel_bytes \in {3, 5, 3 * width * height - 1, 3 * width * height} :
     \E before \in {[k \in 1..pixel_bytes |-> 7]} :
     \E r \in {hv_paint_byte(before, pixel_bytes, opt.layout, opt.order, width,
                             height, d, 255)} :
       /\ gh' = [gh EXCEPT !.last = PaintOf(r, d, width * height, width, height,
                                            pixel_bytes, before)]
       /\ rs' = [rs EXCEPT !.pc = "called", !.ret = IF r.ok THEN 1 ELSE 0,
                           !.err = r.err]
  /\ UNCHANGED <<engineVars, opt, fs, files>>

NextPaint ==
  \/ PaintPageStart
  \/ PaintReadChunk
  \/ PaintByte
  \/ PaintEncode
  \/ CallPaintByte

SpecPaint == InitPaint /\ [][NextPaint]_vars


\* The coordinate the engine of the run's layout gives index d.
CurveCoordinate(d) ==
  IF opt.layout = HV_LAYOUT_HILBERT
    THEN hv_hilbert_d2xy(rs.order, U64(d), Unwritten).out
  ELSE hv_gilbert_d2xy(rs.width, rs.height, d, Unwritten).out

\* The three bytes of the pixel at (x, y) of a buffer of rows of width pixels.
PixelAt(pixels, width, x, y) ==
  <<pixels[3 * (y * width + x) + 1], pixels[3 * (y * width + x) + 2],
    pixels[3 * (y * width + x) + 3]>>

\* The d-th byte (from 0) of page p of the input.
PageByte(p, d) == files[p * rs.capacity + d + 1]

\* The bytes page p has.
PageBytes(p) == Min(rs.capacity, rs.total - p * rs.capacity)

\* The picture of page e.page is the page's bytes along the curve, black
\* elsewhere.
Pictured(e) ==
  /\ e.bytes = PageBytes(e.page)
  /\ Len(e.pixels) = 3 * rs.width * rs.height
  /\ \A x \in 0..(rs.width - 1), y \in 0..(rs.height - 1) :
       LET ds == {d \in 0..(e.bytes - 1) : CurveCoordinate(d) = [x |-> x, y |-> y]}
       IN IF ds = {} THEN PixelAt(e.pixels, rs.width, x, y) = <<0, 0, 0>>
          ELSE \A d \in ds : PixelAt(e.pixels, rs.width, x, y)
                               = hv_byte_to_rgb(PageByte(e.page, d))

\* C23: the buffer handed to the encoder for page p holds, at the curve
\* coordinate of every index d below the page's byte count, the palette
\* colour of the page's d-th byte, and black everywhere else.
C23_PagePicture ==
  (args.fn = "paint" /\ gh.encoded # <<>>) => Pictured(gh.encoded[Len(gh.encoded)])

\* A last page of one byte encoded after a full page that left colour in
\* every pixel but one.
C23_Witness ==
  /\ args.fn = "paint"
  /\ Len(gh.encoded) = 3
  /\ gh.stale
  /\ gh.encoded[3].bytes = 1
  /\ gh.encoded[2].bytes = 4
  /\ PixelAt(gh.encoded[3].pixels, rs.width, 0, 0) # <<0, 0, 0>>
  /\ PixelAt(gh.encoded[2].pixels, rs.width, 1, 1) # <<0, 0, 0>>
  /\ PixelAt(gh.encoded[3].pixels, rs.width, 1, 1) = <<0, 0, 0>>

\* The offsets of the pixel at (x, y).
PixelOffsets(width, x, y) == (3 * (y * width + x))..(3 * (y * width + x) + 2)

\* A call of hv_paint_byte whose index the engine maps to a coordinate inside
\* the image whose three offsets lie inside the buffer.
PaintFits(p) ==
  /\ p.mapped
  /\ p.x >= 0
  /\ p.x < p.width
  /\ p.y < p.height
  /\ \A o \in PixelOffsets(p.width, p.x, p.y) : o < p.pixel_bytes

\* C25: in a render every index handed to the engine is below the capacity,
\* its coordinate is inside the image and exactly the offsets
\* 3*(y*width+x) .. +2 are written, all inside the buffer of 3 * capacity
\* bytes; a call whose coordinate or offsets fall outside returns an error
\* and writes nothing.
C25_PaintInBounds ==
  (args.fn = "paint" /\ gh.last.called) =>
    /\ rs.pc # "called" =>
         /\ gh.last.d < gh.last.capacity
         /\ gh.last.pixel_bytes = 3 * gh.last.capacity
         /\ gh.last.ok
    /\ gh.last.ok =>
         /\ gh.last.x < gh.last.width
         /\ gh.last.y < gh.last.height
         /\ gh.last.offsets = PixelOffsets(gh.last.width, gh.last.x, gh.last.y)
         /\ \A o \in gh.last.offsets : o >= 0 /\ o < gh.last.pixel_bytes
    /\ gh.last.ok <=> PaintFits(gh.last)
    /\ ~gh.last.ok =>
         /\ gh.last.err # ""
         /\ gh.last.offsets = {}
         /\ gh.last.pixels = gh.last.before

\* A byte of a 3x3 page is written at the very end of the buffer.
C25_Witness ==
  /\ args.fn = "paint"
  /\ rs.pc # "called"
  /\ gh.last.called
  /\ gh.last.ok
  /\ gh.last.d > 0
  /\ gh.last.capacity = 9
  /\ \E o \in gh.last.offsets : o = gh.last.pixel_bytes - 1

\* A coordinate outside the image is refused.
C25_WitnessRefusedCoordinate ==
  /\ rs.pc = "called"
  /\ gh.last.err = "mapped coordinate out of range"

\* An offset outside the buffer is refused.
C25_WitnessRefusedOffset ==
  /\ rs.pc = "called"
  /\ gh.last.err = "pixel index out of range"


-----------------------------------------------------------------------------
(* The resources of hv_render_file: the input stream, the descriptors of    *)
(* the legend and of the pages, the pixel buffer.  Every call that can fail *)
(* may fail; every return is translated with the releases written at that   *)
(* return.  A descriptor is [role, page, ino]; gh.open is the descriptor    *)
(* table of the process.                                                     *)

NoFd == [role |-> "none", page |-> 0, ino |-> 0]

\* The descriptor is kept.
fclose_leak(open, fp) == open

\* fclose(fp): the descriptor is released, whatever fclose returns.
fclose(open, fp) == open \ {fp}

\* close(fd).
close(open, fd) == open \ {fd}

\* hv_open_checked_output_stream over the descriptor table: fail names the
\* call that fails, if any.
hv_open_checked_output_stream_fd(open, fd, input_st, fail) ==
  IF fail = "open"
    THEN [ok |-> FALSE, fp |-> NoFd, open |-> open, opened |-> {},
          truncated |-> {}, rejected |-> {}]
  ELSE IF fail = "fstat"
    THEN [ok |-> FALSE, fp |-> NoFd, open |-> close(open \cup {fd}, fd),
          opened |-> {fd}, truncated |-> {}, rejected |-> {}]
  ELSE IF hv_same_inode([dev |-> 0, ino |-> fd.ino], input_st)
    THEN [ok |-> FALSE, fp |-> NoFd, open |-> close(open \cup {fd}, fd),
          opened |-> {fd}, truncated |-> {}, rejected |-> {fd}]
  ELSE IF fail = "ftruncate"
    THEN [ok |-> FALSE, fp |-> NoFd, open |-> close(open \cup {fd}, fd),
          opened |-> {fd}, truncated |-> {}, rejected |-> {}]
  ELSE IF fail = "fdopen"
    THEN [ok |-> FALSE, fp |-> NoFd, open |-> close(open \cup {fd}, fd),
          opened |-> {fd}, truncated |-> {fd}, rejected |-> {}]
  ELSE [ok |-> TRUE, fp |-> fd, open |-> open \cup {fd}, opened |-> {fd},
        truncated |-> {fd}, rejected |-> {}]

OpenFailures == {"none", "open", "fstat", "ftruncate", "fdopen"}

\* The inode behind a destination when it is opened: the input's (1) or one
\* of its own.
InitClose ==
  /\ args = [fn |-> "render_resources"]
  /\ ret = -1
  /\ outs = Unwritten
  /\ walk = [d |-> 0, visited |-> {}]
  /\ \E legend_enabled \in BOOLEAN, legend_null \in BOOLEAN :
     \E page_count \in 1..MaxClosePages :
     \E alias \in SUBSET {0, page_count} :
       opt = [legend_enabled |-> legend_enabled, legend_null |-> legend_null,
              page_count |-> page_count, alias |-> alias]
  /\ fs = <<>>
  /\ files = <<>>
  /\ rs = [pc |-> "open_input", ret |-> -1, site |-> 0, stream |-> ZeroStream,
           input_st |-> [dev |-> 0, ino |-> 0], pixels |-> "none",
           legend_fp |-> NoFd, page_fp |-> NoFd, page_index |-> 0]
  /\ gh = [env |-> 0, open |-> {}, opened |-> {}, truncated |-> {},
           rejected |-> {}, input_opened |-> FALSE]

\* What a destination's open(2) finds: page 0 stands for the legend.
DestinationFd(role, page) ==
  [role |-> role, page |-> page,
   ino |-> IF page \in opt.alias THEN 1 ELSE 2 + page]

\* return 0 at a line of hv_render_file: free tells whether free(pixels) is
\* written there, close_input whether hv_close_input_stream is, rc what its
\* fclose returns.
Return(site, free, close_input, rc) ==
  [rs EXCEPT !.pc = "done", !.ret = 0, !.site = site,
             !.pixels = IF free THEN "freed" ELSE @,
             !.stream = IF close_input THEN hv_close_input_stream(@, rc).stream
                        ELSE @]

\* if (legend_fp != 0) { (void)fclose(legend_fp); }
CloseLegendIfOpen(open, legend_fp) ==
  IF legend_fp # NoFd THEN fclose(open, legend_fp) ELSE open

\* hv_open_file_slice_stream and the fstat of its descriptor.
CloseOpenInput ==
  /\ rs.pc = "open_input"
  /\ \E fail \in {"none", "slice", "fstat"}, rc \in {0, -1} :
       /\ rs' = IF fail = "slice" THEN Return(923, FALSE, FALSE, rc)
                ELSE IF fail = "fstat"
                  THEN [Return(930, FALSE, TRUE, rc) EXCEPT
                          !.stream = hv_close_input_stream(
                                       [ZeroStream EXCEPT !.fp.open = TRUE,
                                                          !.fp.ino = 1], rc).stream]
                ELSE [rs EXCEPT !.pc = "setup",
                                !.stream = [ZeroStream EXCEPT !.fp.open = TRUE,
                                                              !.fp.ino = 1],
                                !.input_st = [dev |-> 0, ino |-> 1]]
       /\ gh' = [gh EXCEPT !.input_opened = fail # "slice"]
  /\ UNCHANGED <<engineVars, opt, fs, files>>

\* Geometry, the pagination test, the gate, the buffer size, the cap, calloc.
CloseSetup ==
  /\ rs.pc = "setup"
  /\ \E site \in {0, 935, 947, 958, 965, 970, 981, 990}, rc \in {0, -1} :
       rs' = IF site # 0 THEN Return(site, FALSE, TRUE, rc)
             ELSE [rs EXCEPT !.pixels = "allocated",
                             !.pc = IF opt.legend_enabled THEN "legend"
                                    ELSE "page"]
  /\ UNCHANGED <<engineVars, opt, fs, files, gh>>

\* The legend: its path, its checked stream, its header.
CloseLegend ==
  /\ rs.pc = "legend"
  /\ \E fail \in OpenFailures \cup {"header"}, rc \in {0, -1} :
     \E o \in {hv_open_checked_output_stream_fd(
                 gh.open, DestinationFd("legend", 0), rs.input_st, fail)} :
       IF opt.legend_null
         THEN /\ rs' = Return(998, TRUE, TRUE, rc)
              /\ UNCHANGED gh
       ELSE /\ rs' = IF ~o.ok THEN Return(1013, TRUE, TRUE, rc)
                     ELSE IF fail = "header"
                       THEN [Return(1020, TRUE, TRUE, rc) EXCEPT !.legend_fp = o.fp]
                     ELSE [rs EXCEPT !.legend_fp = o.fp, !.pc = "page"]
            /\ gh' = [gh EXCEPT
                        !.open = IF o.ok /\ fail = "header" THEN fclose(o.open, o.fp)
                                 ELSE o.open,
                        !.opened = @ \cup o.opened,
                        !.truncated = @ \cup o.truncated,
                        !.rejected = @ \cup o.rejected]
  /\ UNCHANGED <<engineVars, opt, fs, files>>

\* A page up to its path: memset, the reads, the painting, the path.
ClosePageBody ==
  /\ rs.pc = "page"
  /\ \E site \in {0, 1054, 1066, 1086}, rc \in {0, -1} :
       /\ rs' = IF site # 0 THEN Return(site, TRUE, TRUE, rc)
                ELSE [rs EXCEPT !.pc = "open_page"]
       /\ gh' = IF site # 0
                  THEN [gh EXCEPT !.open = CloseLegendIfOpen(@, rs.legend_fp)]
                ELSE gh
  /\ UNCHANGED <<engineVars, opt, fs, files>>

\* The page's checked stream.
ClosePageOpen ==
  /\ rs.pc = "open_page"
  /\ \E fail \in OpenFailures, rc \in {0, -1} :
     \E o \in {hv_open_checked_output_stream_fd(
                 gh.open, DestinationFd("page", rs.page_index + 1),
                 rs.input_st, fail)} :
       /\ rs' = IF ~o.ok THEN Return(1106, TRUE, TRUE, rc)
                ELSE [rs EXCEPT !.page_fp = o.fp, !.pc = "write_page"]
       /\ gh' = [gh EXCEPT
                   !.open = IF ~o.ok THEN CloseLegendIfOpen(o.open, rs.legend_fp)
                            ELSE o.open,
                   !.opened = @ \cup o.opened,
                   !.truncated = @ \cup o.truncated,
                   !.rejected = @ \cup o.rejected]
  /\ UNCHANGED <<engineVars, opt, fs, files>>

\* hv_write_image_stream, fclose of the page, the page's legend row.
ClosePageWrite ==
  /\ rs.pc = "write_page"
  /\ \E fail \in {"none", "write", "fclose", "row"}, rc \in {0, -1} :
       /\ rs' = IF fail = "write" THEN Return(1116, TRUE, TRUE, rc)
                ELSE IF fail = "fclose" THEN Return(1126, TRUE, TRUE, rc)
                ELSE IF fail = "row" /\ rs.legend_fp # NoFd
                  THEN Return(1135, TRUE, TRUE, rc)
                ELSE [rs EXCEPT !.page_fp = NoFd, !.page_index = @ + 1,
                                !.pc = IF rs.page_index + 1 < opt.page_count
                                         THEN "page" ELSE "finish"]
       /\ gh' = [gh EXCEPT !.open =
                   IF fail \in {"write", "fclose"}
                     THEN CloseLegendIfOpen(fclose(@, rs.page_fp), rs.legend_fp)
                   ELSE IF fail = "row" /\ rs.legend_fp # NoFd
                     THEN fclose(fclose(@, rs.page_fp), rs.legend_fp)
                   ELSE fclose(@, rs.page_fp)]
  /\ UNCHANGED <<engineVars, opt, fs, files>>

\* The legend totals, its fclose, the close of the input, the result.
CloseFinish ==
  /\ rs.pc = "finish"
  /\ \E fail \in {"none", "total", "fclose"}, rc \in {0, -1} :
       /\ rs' = IF fail = "total" /\ rs.legend_fp # NoFd
                  THEN Return(1147, TRUE, TRUE, rc)
                ELSE IF fail = "fclose" /\ rs.legend_fp # NoFd
                  THEN Return(1153, TRUE, TRUE, rc)
                ELSE IF ~hv_close_input_stream(rs.stream, rc).ok
                  THEN [Return(1160, TRUE, TRUE, rc) EXCEPT !.legend_fp = NoFd]
                ELSE [rs EXCEPT !.pc = "done", !.ret = 1, !.site = 1170,
                                !.legend_fp = NoFd, !.pixels = "freed",
                                !.stream = hv_close_input_stream(@, rc).stream]
       /\ gh' = [gh EXCEPT !.open = CloseLegendIfOpen(@, rs.legend_fp)]
  /\ UNCHANGED <<engineVars, opt, fs, files>>

NextClose ==
  \/ CloseOpenInput
  \/ CloseSetup
  \/ CloseLegend
  \/ ClosePageBody
  \/ ClosePageOpen
  \/ ClosePageWrite
  \/ CloseFinish

SpecClose == InitClose /\ [][NextClose]_vars

\* C30: when hv_render_file has returned, with success or at any failure,
\* the input stream is closed, no descriptor the call opened is open and the
\* pixel buffer is not held; a descriptor the alias check rejected was closed
\* at once and never truncated.
C30_AllReleased ==
  args.fn = "render_resources" =>
    /\ rs.pc = "done" =>
         /\ ~rs.stream.fp.open
         /\ gh.open = {}
         /\ rs.pixels # "allocated"
    /\ gh.rejected \cap gh.truncated = {}
    /\ gh.rejected \cap gh.open = {}
    /\ \A fd \in gh.truncated : fd.ino # rs.input_st.ino

\* The second page fails to be written with the legend open: three
\* descriptors and the buffer were held.
C30_Witness ==
  /\ args.fn = "render_resources"
  /\ rs.pc = "done"
  /\ rs.site = 1116
  /\ rs.page_index = 1
  /\ Cardinality(gh.opened) = 3
  /\ rs.pixels = "freed"

\* A page that aliases the input is rejected after the legend was opened.
C30_WitnessRejected ==
  /\ args.fn = "render_resources"
  /\ rs.pc = "done"
  /\ rs.site = 1106
  /\ gh.rejected # {}
  /\ gh.truncated # {}

\* The input stream fails to close at the end of a successful render.
C30_WitnessInputClose ==
  /\ args.fn = "render_resources"
  /\ rs.pc = "done"
  /\ rs.site = 1160

=============================================================================
